---- MODULE Spec2Model ----
(***************************************************************************)
(* Lexium API (csv-gpt-backend/lexium1): the question-answering servers of *)
(* the repository, modelled from their JavaScript sources.                 *)
(*                                                                         *)
(*   - the "FAST" server (src/unnamed/part_001): CSV/TXT preloaded in      *)
(*     memory, /api/reload, /api/ask with an intent router and a           *)
(*     text-generation call bounded by withTimeout;                        *)
(*   - the "universal" /api/ask of src/server.js:752 (callOpenAIJSON, no   *)
(*     timeout) and the /api/answer of src/unnamed/part_002;               *)
(*   - the deterministic /api/answer of src/server.js:557 and its helpers  *)
(*     (norm, toNum, mean, pickMeasure, findBestStudent, percentileOf...). *)
(*                                                                         *)
(* Text is modelled character by character on TLA+ strings (Len, SubSeq    *)
(* and \o act on strings in TLC).  JavaScript values are tagged records.   *)
(***************************************************************************)
EXTENDS Integers, Sequences, FiniteSets, TLC

VARIABLES
    disk,       \* storage: the files as the storage collaborator holds them
    DATA,       \* part_001:82   let DATA = { columns, rows }
    TXT,        \* part_001:83   let TXT  = { emocionales, evaluacion, ubicacion }
    stamp,      \* history: which preloadAll call wrote DATA and each TXT field
    reload,     \* the /api/reload requests (calls of preloadAll) and their position
    req,        \* the /api/ask requests and their position
    ans,        \* the /api/answer requests of src/server.js:557 and their position
    sampleRow,  \* server.js:564  globalThis.__sampleRow
    ask,        \* the /api/ask requests of src/server.js:752 and their position
    sent,       \* history: the last response a question request sent, with its request
    value,      \* percentileOf: argument value
    arrNums,    \* percentileOf: argument arrNums
    pct,        \* percentileOf: what the call returned ("none" before the call)
    raw,        \* the text a text-generation call returned
    shaped,     \* the response a handler made of raw ("none" before it ran)
    applied     \* a function of the program applied to a question and a file: its
                \* name and what it returned ("none" before the call)

srvVars == <<DATA, TXT, stamp, reload, req>>
ansVars == <<ans, sampleRow, ask>>
fnVars  == <<value, arrNums, pct, raw, shaped, applied>>
vars    == <<disk, DATA, TXT, stamp, reload, req, ans, sampleRow, ask, sent, value, arrNums, pct, raw, shaped,
             applied>>

----------------------------------------------------------------------------
(* Characters and strings                                                  *)

Digits     == "0123456789"
UpperAZ    == "ABCDEFGHIJKLMNOPQRSTUVWXYZ"
LowerAZ    == "abcdefghijklmnopqrstuvwxyz"
UpperMarks == "ÁÉÍÓÚÜÑ"
LowerMarks == "áéíóúüñ"
BaseMarks  == "aeiouun"

ch(s, i) == SubSeq(s, i, i)

\* position of character c in the alphabet string, 0 when absent
IndexIn(alphabet, c) ==
    IF \E i \in 1..Len(alphabet) : ch(alphabet, i) = c
    THEN CHOOSE i \in 1..Len(alphabet) : ch(alphabet, i) = c
    ELSE 0

IsDigit(c)  == IndexIn(Digits, c) > 0
IsSpace(c)  == c = " "
\* the regular-expression class \w
IsWord(c)   == IndexIn(UpperAZ, c) > 0 \/ IndexIn(LowerAZ, c) > 0 \/ IsDigit(c) \/ c = "_"

\* String.prototype.toLowerCase on one character
toLowerCase1(c) ==
    IF IndexIn(UpperAZ, c) > 0 THEN ch(LowerAZ, IndexIn(UpperAZ, c))
    ELSE IF IndexIn(UpperMarks, c) > 0 THEN ch(LowerMarks, IndexIn(UpperMarks, c))
    ELSE c

\* .normalize("NFD") and the removal of the combining marks U+0300..U+036F, on one (lower-case) character
stripMark1(c) ==
    IF IndexIn(LowerMarks, c) > 0 THEN ch(BaseMarks, IndexIn(LowerMarks, c)) ELSE c

RECURSIVE foldFrom(_, _)
foldFrom(s, i) ==
    IF i > Len(s) THEN "" ELSE stripMark1(toLowerCase1(ch(s, i))) \o foldFrom(s, i + 1)

\* String.prototype.trim
RECURSIVE trimStart(_)
trimStart(s) == IF Len(s) > 0 /\ IsSpace(ch(s, 1)) THEN trimStart(SubSeq(s, 2, Len(s))) ELSE s
RECURSIVE trimEnd(_)
trimEnd(s) == IF Len(s) > 0 /\ IsSpace(ch(s, Len(s))) THEN trimEnd(SubSeq(s, 1, Len(s) - 1)) ELSE s
trim(s) == trimEnd(trimStart(s))

\* .replace(/[^\w\s]/g, " ")
RECURSIVE punctToSpace(_, _)
punctToSpace(s, i) ==
    IF i > Len(s) THEN ""
    ELSE (IF IsWord(ch(s, i)) \/ IsSpace(ch(s, i)) THEN ch(s, i) ELSE " ") \o punctToSpace(s, i + 1)

\* .replace(/\s+/g, " ")
RECURSIVE collapseSpaces(_, _)
collapseSpaces(s, i) ==
    IF i > Len(s) THEN ""
    ELSE IF IsSpace(ch(s, i)) /\ i > 1 /\ IsSpace(ch(s, i - 1)) THEN collapseSpaces(s, i + 1)
    ELSE ch(s, i) \o collapseSpaces(s, i + 1)

\* String.prototype.includes / indexOf (0 when absent, else the 1-based position)
includes(hay, needle) ==
    \E i \in 1..(Len(hay) - Len(needle) + 1) : SubSeq(hay, i, i + Len(needle) - 1) = needle
indexOf(hay, needle) ==
    IF includes(hay, needle)
    THEN CHOOSE i \in 1..(Len(hay) - Len(needle) + 1) :
            /\ SubSeq(hay, i, i + Len(needle) - 1) = needle
            /\ \A j \in 1..(i - 1) : SubSeq(hay, j, j + Len(needle) - 1) # needle
    ELSE 0

\* server.js:222  norm: lower case, no marks, punctuation to blanks, blanks collapsed, trimmed
norm(s) == trim(collapseSpaces(punctToSpace(foldFrom(s, 1), 1), 1))

\* part_001:41  norm of the FAST server: lower case, no marks, trimmed
normFast(s) == trim(foldFrom(s, 1))

\* String.prototype.split(/\s+/).filter(Boolean) on a normalized string
RECURSIVE words(_)
words(s) ==
    LET t == trimStart(s) IN
    IF t = "" THEN <<>>
    ELSE LET k == IF includes(t, " ") THEN indexOf(t, " ") ELSE Len(t) + 1
         IN <<SubSeq(t, 1, k - 1)>> \o words(SubSeq(t, k, Len(t)))

----------------------------------------------------------------------------
(* Regular expressions: the patterns the servers use are sequences of      *)
(* literals, \s+, \s*, greedy character-class runs, (.+?) and (.+).  A     *)
(* pattern is a sequence of elements; match gives the leftmost match with  *)
(* the backtracking order of String.prototype.match.                       *)

Lit(x)     == [k |-> "lit",  s |-> <<x>>,  cls |-> "",  cap |-> FALSE]   \* a literal
Alt(xs)    == [k |-> "lit",  s |-> xs,     cls |-> "",  cap |-> TRUE]    \* (a|b|...)
Sp1        == [k |-> "run1", s |-> <<>>,   cls |-> "s", cap |-> FALSE]   \* \s+
Sp0        == [k |-> "run0", s |-> <<>>,   cls |-> "s", cap |-> FALSE]   \* \s*
Run1(cls)  == [k |-> "run1", s |-> <<>>,   cls |-> cls, cap |-> TRUE]    \* ([class]+)
Run1u(cls) == [k |-> "run1", s |-> <<>>,   cls |-> cls, cap |-> FALSE]   \* [class]+
Lazy1      == [k |-> "lazy", s |-> <<>>,   cls |-> ".", cap |-> TRUE]    \* (.+?)
Lazy0u     == [k |-> "lazy0", s |-> <<>>,  cls |-> ".", cap |-> FALSE]   \* .*?
WordB      == [k |-> "wordb", s |-> <<>>,  cls |-> "",  cap |-> FALSE]   \* \b

\* membership of a character in a class: s \s, d \d, an [a-z0-9] (with /i),
\* am [a-záéíóúüñ0-9] (with /i), AM [A-Za-zÁÉÍÓÚÜÑ0-9] (with /i), . any character
InClass(cls, c) ==
    CASE cls = "s"  -> IsSpace(c)
      [] cls = "d"  -> IsDigit(c)
      [] cls = "an" -> IndexIn(LowerAZ, c) > 0 \/ IndexIn(UpperAZ, c) > 0 \/ IsDigit(c)
      [] cls = "am" -> IndexIn(LowerAZ, c) > 0 \/ IndexIn(UpperAZ, c) > 0 \/ IsDigit(c)
                        \/ IndexIn(LowerMarks, c) > 0 \/ IndexIn(UpperMarks, c) > 0
      [] cls = "."  -> TRUE
      [] OTHER      -> FALSE

RECURSIVE lowerFrom(_, _)
lowerFrom(s, i) == IF i > Len(s) THEN "" ELSE toLowerCase1(ch(s, i)) \o lowerFrom(s, i + 1)
\* String.prototype.toLowerCase / toUpperCase
toLowerCase(s) == lowerFrom(s, 1)
toUpperCase1(c) ==
    IF IndexIn(LowerAZ, c) > 0 THEN ch(UpperAZ, IndexIn(LowerAZ, c))
    ELSE IF IndexIn(LowerMarks, c) > 0 THEN ch(UpperMarks, IndexIn(LowerMarks, c))
    ELSE c
RECURSIVE upperFrom(_, _)
upperFrom(s, i) == IF i > Len(s) THEN "" ELSE toUpperCase1(ch(s, i)) \o upperFrom(s, i + 1)
toUpperCase(s) == upperFrom(s, 1)

\* \b at position i: a \w character on one side only
wordAt(s, i) == 1 <= i /\ i <= Len(s) /\ IsWord(ch(s, i))
boundary(s, i) == wordAt(s, i - 1) # wordAt(s, i)

\* length of the run of class characters of s from position i
RECURSIVE runLen(_, _, _)
runLen(cls, s, i) == IF i <= Len(s) /\ InClass(cls, ch(s, i)) THEN 1 + runLen(cls, s, i + 1) ELSE 0

NoMatch == [ok |-> FALSE, caps |-> <<>>, from |-> 0, to |-> 0]

RECURSIVE matchAt(_, _, _, _, _), tryLen(_, _, _, _, _, _, _, _), tryLit(_, _, _, _, _, _)
\* the elements pat[k..] at position i of s; ci: the /i flag
matchAt(pat, k, s, i, ci) ==
    IF k > Len(pat) THEN [ok |-> TRUE, caps |-> <<>>, from |-> i, to |-> i]
    ELSE LET e == pat[k] IN
         CASE e.k = "lit"   -> tryLit(pat, k, s, i, ci, 1)
           [] e.k = "run1"  -> LET n == runLen(e.cls, s, i) IN
                               IF n < 1 THEN NoMatch ELSE tryLen(pat, k, s, i, ci, n, -1, 1)
           [] e.k = "run0"  -> tryLen(pat, k, s, i, ci, runLen(e.cls, s, i), -1, 0)
           [] e.k = "lazy"  -> IF i > Len(s) THEN NoMatch
                               ELSE tryLen(pat, k, s, i, ci, 1, 1, Len(s) - i + 1)
           [] e.k = "lazy0" -> tryLen(pat, k, s, i, ci, 0, 1, Len(s) - i + 1)
           [] e.k = "wordb" -> IF boundary(s, i) THEN matchAt(pat, k + 1, s, i, ci) ELSE NoMatch
\* element k takes n characters; on failure of the rest, n moves by step until last
tryLen(pat, k, s, i, ci, n, step, last) ==
    LET r == matchAt(pat, k + 1, s, i + n, ci) IN
    IF r.ok THEN [r EXCEPT !.caps = (IF pat[k].cap THEN <<SubSeq(s, i, i + n - 1)>> ELSE <<>>) \o @,
                           !.from = i]
    ELSE IF n = last THEN NoMatch
    ELSE tryLen(pat, k, s, i, ci, n + step, step, last)
\* the alternatives of a literal element, in order
tryLit(pat, k, s, i, ci, a) ==
    IF a > Len(pat[k].s) THEN NoMatch
    ELSE LET x   == pat[k].s[a]
             got == SubSeq(s, i, i + Len(x) - 1)
             hit == i + Len(x) - 1 <= Len(s) /\ (IF ci THEN toLowerCase(got) = toLowerCase(x) ELSE got = x)
             r   == IF hit THEN matchAt(pat, k + 1, s, i + Len(x), ci) ELSE NoMatch
         IN IF r.ok THEN [r EXCEPT !.caps = (IF pat[k].cap THEN <<got>> ELSE <<>>) \o @, !.from = i]
            ELSE tryLit(pat, k, s, i, ci, a + 1)

RECURSIVE matchFrom(_, _, _, _)
matchFrom(pat, s, i, ci) ==
    IF i > Len(s) + 1 THEN NoMatch
    ELSE LET r == matchAt(pat, 1, s, i, ci) IN
         IF r.ok THEN r ELSE matchFrom(pat, s, i + 1, ci)

\* s.match(pattern): ok, the captured groups, and the matched range [from, to)
match(pat, s)  == matchFrom(pat, s, 1, FALSE)
matchI(pat, s) == matchFrom(pat, s, 1, TRUE)

----------------------------------------------------------------------------
(* JavaScript values: strings, numbers (n + d/10, d a decimal digit), NaN  *)
(* and undefined                                                           *)

Str(s)    == [t |-> "str", s |-> s, n |-> 0, d |-> 0]
Num(n)    == [t |-> "num", s |-> "", n |-> n, d |-> 0]
Dec(n, d) == [t |-> "num", s |-> "", n |-> n, d |-> d]
NaN       == [t |-> "nan", s |-> "", n |-> 0, d |-> 0]
Undefined == [t |-> "undef", s |-> "", n |-> 0, d |-> 0]

\* Number.isFinite
isFinite(v) == v.t = "num"
\* the number in tenths, to compare and add
tenths(v) == 10 * v.n + v.d

RECURSIVE digitsValue(_)
digitsValue(s) ==
    IF s = "" THEN 0
    ELSE 10 * digitsValue(SubSeq(s, 1, Len(s) - 1)) + (IndexIn(Digits, ch(s, Len(s))) - 1)

RECURSIVE allDigits(_)
allDigits(s) == s = "" \/ (IsDigit(ch(s, 1)) /\ allDigits(SubSeq(s, 2, Len(s))))

\* String(x)
String(v) ==
    CASE v.t = "str"   -> v.s
      [] v.t = "num"   -> LET RECURSIVE show(_)
                              show(k) == IF k < 10 THEN ch(Digits, k + 1)
                                         ELSE show(k \div 10) \o ch(Digits, (k % 10) + 1)
                          IN IF v.d = 0 THEN show(v.n) ELSE show(v.n) \o "." \o show(v.d)
      [] v.t = "nan"   -> "NaN"
      [] v.t = "undef" -> "undefined"

\* Number(s) on the numerals of the model: blank is 0, digits, digits "." one digit;
\* anything else (letters, a sign, a second dot) is NaN
Number(s) ==
    LET u == trim(s)
        p == indexOf(u, ".")
    IN IF allDigits(u) THEN Num(digitsValue(u))
       ELSE IF p > 0 /\ Len(u) = p + 1 /\ allDigits(SubSeq(u, 1, p - 1)) /\ IsDigit(ch(u, p + 1))
            THEN Dec(digitsValue(SubSeq(u, 1, p - 1)), digitsValue(ch(u, p + 1)))
       ELSE NaN

\* .replace(",", "."): the first comma only
commaToDot(s) ==
    LET p == indexOf(s, ",") IN
    IF p = 0 THEN s ELSE SubSeq(s, 1, p - 1) \o "." \o SubSeq(s, p + 1, Len(s))

\* .replace(/[^\d\.\-]/g, "")
RECURSIVE keepNumeric(_, _)
keepNumeric(s, i) ==
    IF i > Len(s) THEN ""
    ELSE (IF IsDigit(ch(s, i)) \/ ch(s, i) = "." \/ ch(s, i) = "-" THEN ch(s, i) ELSE "")
         \o keepNumeric(s, i + 1)

\* server.js:230  toNum
toNum(x) ==
    IF x.t = "undef" THEN NaN
    ELSE Number(keepNumeric(commaToDot(String(x)), 1))

\* part_001:44  toNum of the FAST server
toNumFast(x) == Number(commaToDot(String(x)))

----------------------------------------------------------------------------
(* Numbers                                                                 *)

\* the variant a reversed comparison would give
geq(a, b) == tenths(a) >= tenths(b)

\* a <= b, a < b on finite numbers
leq(a, b) == tenths(a) <= tenths(b)
lt(a, b)  == tenths(a) < tenths(b)

\* Math.round(100 * num / den), den > 0: the nearest integer, halves upwards
RoundPercent(num, den) == (200 * num + den) \div (2 * den)

\* Array.prototype.filter(Number.isFinite)
RECURSIVE filterFinite(_)
filterFinite(xs) ==
    IF xs = <<>> THEN <<>>
    ELSE (IF isFinite(Head(xs)) THEN <<Head(xs)>> ELSE <<>>) \o filterFinite(Tail(xs))

\* Array.prototype.sort((a,b)=>a-b): stable, ascending
RECURSIVE insertAsc(_, _)
insertAsc(x, xs) ==
    IF xs = <<>> THEN <<x>>
    ELSE IF lt(x, Head(xs)) THEN <<x>> \o xs
    ELSE <<Head(xs)>> \o insertAsc(x, Tail(xs))
RECURSIVE sortAsc(_)
sortAsc(xs) == IF xs = <<>> THEN <<>> ELSE insertAsc(xs[Len(xs)], sortAsc(SubSeq(xs, 1, Len(xs) - 1)))

\* the variant a slip in the comparison would give: the rank counts only the
\* values strictly below
percentileOfStrict(v, nums) ==
    LET xs == sortAsc(filterFinite(nums)) IN
    IF xs = <<>> \/ ~isFinite(v) THEN NaN
    ELSE LET found == {i \in 1..Len(xs) : leq(v, xs[i])}
             rank  == IF found = {} THEN Len(xs)
                      ELSE (CHOOSE i \in found : \A j \in found : i <= j) - 1
         IN Num(RoundPercent(rank, Len(xs)))

\* server.js:409  percentileOf
percentileOf(v, nums) ==
    LET xs == sortAsc(filterFinite(nums)) IN
    IF xs = <<>> \/ ~isFinite(v) THEN NaN
    ELSE LET found == {i \in 1..Len(xs) : lt(v, xs[i])}            \* xs.findIndex(x => x > value)
             rank  == IF found = {} THEN Len(xs)                     \* -1: rank = xs.length
                      ELSE (CHOOSE i \in found : \A j \in found : i <= j) - 1   \* 0-based index
         IN Num(RoundPercent(rank, Len(xs)))

\* part_001:52  percentileOf of the FAST server: i counts the leading xs[i] <= value
RECURSIVE countLeading(_, _, _)
countLeading(xs, v, i) ==
    IF i < Len(xs) /\ leq(xs[i + 1], v) THEN countLeading(xs, v, i + 1) ELSE i
percentileOfFast(v, nums) ==
    LET xs == sortAsc(filterFinite(nums)) IN
    IF xs = <<>> \/ ~isFinite(v) THEN NaN
    ELSE Num(RoundPercent(countLeading(xs, v, 0), Len(xs)))

----------------------------------------------------------------------------
(* Objects and arrays                                                      *)

\* a JavaScript object: its properties in insertion order, <<[k, v], ...>>
get(o, key) ==
    IF \E i \in 1..Len(o) : o[i].k = key
    THEN o[CHOOSE i \in 1..Len(o) : o[i].k = key].v
    ELSE Undefined
put(o, key, v) ==
    IF \E i \in 1..Len(o) : o[i].k = key
    THEN [i \in 1..Len(o) |-> IF o[i].k = key THEN [k |-> key, v |-> v] ELSE o[i]]
    ELSE Append(o, [k |-> key, v |-> v])
\* Object.keys
keysOf(o) == [i \in 1..Len(o) |-> o[i].k]

\* Array.prototype.sort(compare) for a consistent comparison: stable
sortBy(xs, less(_, _)) ==
    LET n == Len(xs)
        pos(i) == 1 + Cardinality({j \in 1..n : less(xs[j], xs[i]) \/ (~less(xs[i], xs[j]) /\ j < i)})
    IN [p \in 1..n |-> xs[CHOOSE i \in 1..n : pos(i) = p]]

\* Array.prototype.slice(from, to), 0-based, to exclusive
slice(xs, from, to) == SubSeq(xs, from + 1, IF to < Len(xs) THEN to ELSE Len(xs))

\* Array.prototype.find over column names: the first one with the property, "" when none
RECURSIVE findFirst(_, _)
findFirst(xs, hits) ==
    IF xs = <<>> THEN [found |-> FALSE, v |-> ""]
    ELSE IF Head(xs) \in hits THEN [found |-> TRUE, v |-> Head(xs)]
    ELSE findFirst(Tail(xs), hits)
Range(xs) == {xs[i] : i \in 1..Len(xs)}

\* String.prototype.split(delimiter), a one-character delimiter
RECURSIVE split(_, _)
split(s, d) ==
    LET p == indexOf(s, d) IN
    IF p = 0 THEN <<s>> ELSE <<SubSeq(s, 1, p - 1)>> \o split(SubSeq(s, p + 1, Len(s)), d)

\* .replace(/^"(.*)"$/, "$1")
stripQuotes(s) ==
    IF Len(s) >= 2 /\ ch(s, 1) = "\"" /\ ch(s, Len(s)) = "\"" THEN SubSeq(s, 2, Len(s) - 1) ELSE s

\* String.prototype.localeCompare(b) < 0 on the model's alphabet: first by the
\* letters without case and marks (blank and punctuation < digits < letters),
\* then unmarked before marked, then lower case before upper case
CollationOrder == " _-,;:!?.'\"()@*/&#%+<=>0123456789abcdefghijklmnopqrstuvwxyz"
RECURSIVE lexLess(_, _)
lexLess(a, b) ==
    IF b = "" THEN FALSE
    ELSE IF a = "" THEN TRUE
    ELSE LET x == IndexIn(CollationOrder, ch(a, 1))
             y == IndexIn(CollationOrder, ch(b, 1))
         IN IF x # y THEN x < y ELSE lexLess(SubSeq(a, 2, Len(a)), SubSeq(b, 2, Len(b)))
RECURSIVE firstDiff(_, _)
firstDiff(a, b) ==
    IF a = "" \/ b = "" THEN 0
    ELSE IF ch(a, 1) # ch(b, 1) THEN 1 ELSE
         LET r == firstDiff(SubSeq(a, 2, Len(a)), SubSeq(b, 2, Len(b))) IN IF r = 0 THEN 0 ELSE r + 1
localeLess(a, b) ==
    LET fa == foldFrom(a, 1)
        fb == foldFrom(b, 1)
        la == toLowerCase(a)
        lb == toLowerCase(b)
    IN IF fa # fb THEN lexLess(fa, fb)
       ELSE IF la # lb THEN LET i == firstDiff(la, lb) IN IndexIn(LowerMarks, ch(la, i)) = 0
       ELSE IF a # b THEN LET i == firstDiff(a, b) IN toLowerCase1(ch(a, i)) = ch(a, i)
       ELSE FALSE

----------------------------------------------------------------------------
(* src/server.js:166-859: the server with the deterministic /api/answer.   *)
(* A const of the source that is read more than once is the parameter of   *)
(* the operator that models the statements after it.                       *)

SampleRows       == 25   \* rows.slice(0, 25)
MinNumericSample == 3    \* sample.length >= 3

\* a stored file is [exists, lines]: lines is the text cut at its line ends,
\* raw.replace(/\r/g,"").split("\n"); the files of the model carry no byte-order mark
RECURSIVE makeRow(_, _, _)
makeRow(headers, parts, i) ==
    IF i = 0 THEN <<>>
    ELSE put(makeRow(headers, parts, i - 1), headers[i],
             IF i <= Len(parts) THEN Str(parts[i]) ELSE Str(""))       \* parts[i] ?? ""

\* server.js:280-288  the heuristic numeric cast, key by key
castValue(r, key, n) == IF isFinite(n) THEN put(r, key, n) ELSE r
castKey(rows, key) ==
    IF Len(filterFinite([i \in 1..Len(slice(rows, 0, SampleRows)) |-> toNum(get(rows[i], key))])) >= MinNumericSample
    THEN [i \in 1..Len(rows) |-> castValue(rows[i], key, toNum(get(rows[i], key)))]
    ELSE rows
RECURSIVE castNumeric(_, _, _)
castNumeric(headers, rows, k) ==
    IF k = 0 THEN rows ELSE castKey(castNumeric(headers, rows, k - 1), headers[k])

trimAll(xs) == [i \in 1..Len(xs) |-> trim(xs[i])]
unquoteAll(xs) == [i \in 1..Len(xs) |-> trim(stripQuotes(xs[i]))]

\* server.js:270-290  the rows under the headers
parseRows(headers, lines, delimiter) ==
    [columns |-> headers,
     rows |-> castNumeric(headers,
                          [i \in 1..(Len(lines) - 1) |->
                              makeRow(headers, unquoteAll(split(lines[i + 1], delimiter)), Len(headers))],
                          Len(headers)),
     delimiter |-> delimiter]
\* server.js:268-270
parseWith(lines, delimiter) == parseRows(trimAll(split(lines[1], delimiter)), lines, delimiter)
\* server.js:266-269
parseLines(lines) ==
    IF lines = <<>> THEN [columns |-> <<>>, rows |-> <<>>, delimiter |-> ","]
    ELSE parseWith(lines, IF Len(split(lines[1], ";")) > Len(split(lines[1], ",")) THEN ";" ELSE ",")
\* server.js:258  loadCSV, of a file that can be read
loadCSV(file) == parseLines(SelectSeq(file.lines, LAMBDA l : Len(trim(l)) > 0))

RECURSIVE sumTenths(_)
sumTenths(xs) == IF xs = <<>> THEN 0 ELSE tenths(Head(xs)) + sumTenths(Tail(xs))
\* Math.round(10 * sum / n) / 10, the sum in tenths
roundedMean(sum, n) == Dec(((2 * sum + n) \div (2 * n)) \div 10, ((2 * sum + n) \div (2 * n)) % 10)
meanOf(vals) == IF vals = <<>> THEN NaN ELSE roundedMean(sumTenths(vals), Len(vals))
\* server.js:235  mean, rounded to one decimal
mean(nums) == meanOf(filterFinite([i \in 1..Len(nums) |-> toNum(nums[i])]))

\* the placeholder of the responses, the em dash U+2014, written in ASCII
Dash == "--"

\* server.js:240  bucket
bucketOf(n) ==
    IF ~isFinite(n) THEN Dash
    ELSE IF tenths(n) <= 400 THEN "BAJO"
    ELSE IF tenths(n) <= 700 THEN "PROMEDIO"
    ELSE "ALTO"
bucket(v) == bucketOf(toNum(v))

\* server.js:247  by: a Map from r[key] to the rows with it, in first-seen order
addTo(m, g, r) ==
    IF \E i \in 1..Len(m) : m[i].key = g
    THEN [i \in 1..Len(m) |-> IF m[i].key = g THEN [m[i] EXCEPT !.rows = Append(@, r)] ELSE m[i]]
    ELSE Append(m, [key |-> g, rows |-> <<r>>])
RECURSIVE by(_, _)
by(arr, key) ==
    IF arr = <<>> THEN <<>>
    ELSE addTo(by(SubSeq(arr, 1, Len(arr) - 1), key), get(arr[Len(arr)], key), arr[Len(arr)])

\* server.js:330  has
has(nq, tokens) == \E tk \in tokens : includes(nq, norm(tk))

\* x || fallback for the result of Array.prototype.find over column names
orElse(f, fallback) == IF f.found /\ f.v # "" THEN f.v ELSE fallback
\* columns.find(h => norm(h) === name) || fallback
columnNamed(columns, name, fallback) ==
    orElse(findFirst(columns, {h \in Range(columns) : norm(h) = name}), fallback)

\* server.js:335  the synonyms of the well-known measure columns
MeasureMap == <<
    [syns |-> {"ie", "ie global", "inteligencia emocional", "promedio de inteligencia emocional"},
     col  |-> "PROMEDIO DE INTELIGENCIA EMOCIONAL"],
    [syns |-> {"intrapersonales"}, col |-> "PROMEDIO DE HABILIDADES INTRAPERSONALES"],
    [syns |-> {"interpersonales"}, col |-> "PROMEDIO DE HABILIDADES INTERPERSONALES"],
    [syns |-> {"vida"}, col |-> "PROMEDIO DE HABILIDADES PARA LA VIDA"] >>

\* server.js:341-346  the first well-known measure the text names and the file has
RECURSIVE pickFromMap(_, _, _)
pickFromMap(nq, columns, i) ==
    IF i > Len(MeasureMap) THEN ""
    ELSE IF has(nq, MeasureMap[i].syns) /\ columnNamed(columns, norm(MeasureMap[i].col), "") # ""
    THEN columnNamed(columns, norm(MeasureMap[i].col), "")
    ELSE pickFromMap(nq, columns, i + 1)
\* direct || mapped || firstNum || columns[0]
firstPicked(direct, mapped, firstNum, first) ==
    IF direct # "" THEN direct ELSE IF mapped # "" THEN mapped ELSE IF firstNum # "" THEN firstNum ELSE first
\* server.js:331  pickMeasure; sample is the value of globalThis.__sampleRow (|| {})
\* when the call is made
pickMeasure(nq, columns, sample) ==
    firstPicked(orElse(findFirst(columns, {h \in Range(columns) : includes(nq, norm(h))}), ""),
                pickFromMap(nq, columns, 1),
                orElse(findFirst(columns, {h \in Range(columns) : isFinite(toNum(get(sample, h)))}), ""),
                columns[1])

\* server.js:350  parseGroupKey: "" stands for null
parseGroupKey(nq, cols) ==
    IF has(nq, {"por paralelo", "por cada paralelo", "por los paralelos"})
    THEN columnNamed(cols, "paralelo", "PARALELO")
    ELSE IF has(nq, {"por curso", "por cada curso", "por los cursos"})
    THEN columnNamed(cols, "curso", "CURSO")
    ELSE ""

\* server.js:358-363  the filter object, column -> value
withCurso(f, cursoCol, mCurso) ==
    IF mCurso.ok THEN put(f, cursoCol, Str(toUpperCase(norm(mCurso.caps[1])))) ELSE f
filterOf(parCol, cursoCol, mPar, mCurso) ==
    withCurso(IF mPar.ok THEN put(<<>>, parCol, Str(toUpperCase(mPar.caps[1]))) ELSE <<>>, cursoCol, mCurso)
\* server.js:355  parseGroupFilter
parseGroupFilter(nq, cols) ==
    filterOf(columnNamed(cols, "paralelo", "PARALELO"), columnNamed(cols, "curso", "CURSO"),
             matchI(<<Lit("paralelo"), Sp1, Run1("an")>>, nq),
             matchI(<<Lit("curso"), Sp1, Run1("am")>>, nq))

\* server.js:365  filterByObj
filterByObj(rows, f) ==
    IF f = <<>> THEN rows
    ELSE SelectSeq(rows, LAMBDA r :
            \A i \in 1..Len(f) : norm(String(get(r, f[i].k))) = norm(String(f[i].v)))

MaxTop == 50     \* Math.min(50, ...)
DefaultTop == 5  \* k when the text has no "top N"
\* Math.max(1, Math.min(50, n))
clampTop(n) == IF n < 1 THEN 1 ELSE IF n > MaxTop THEN MaxTop ELSE n

\* server.js:372-376
topOf(m, desc, asc) ==
    [some |-> TRUE, k |-> IF m.ok THEN clampTop(digitsValue(m.caps[1])) ELSE DefaultTop,
     order |-> IF desc THEN "desc" ELSE IF asc THEN "asc" ELSE "desc"]
\* server.js:370  parseTopBottom: some = FALSE stands for null
parseTopBottom(nq) ==
    IF ~includes(nq, "top") /\ ~has(nq, {"ranking", "mejores", "peores"})
    THEN [some |-> FALSE, k |-> 0, order |-> ""]
    ELSE topOf(match(<<Lit("top"), Sp1, Run1("d")>>, nq),
               has(nq, {"mas alta", "más alta", "mayor", "maximo", "máximo", "mejores"}),
               has(nq, {"mas baja", "más baja", "menor", "minimo", "mínimo", "peores"}))

\* server.js:379  the threshold patterns, in order; op "" takes the operator matched
ThresholdOps == <<
    [re |-> <<Lit("mayor"), Sp1, Lit("o"), Sp1, Lit("igual"), Sp1, Lit("a"), Sp1, Run1("d")>>, op |-> ">=", idx |-> 1],
    [re |-> <<Lit("menor"), Sp1, Lit("o"), Sp1, Lit("igual"), Sp1, Lit("a"), Sp1, Run1("d")>>, op |-> "<=", idx |-> 1],
    [re |-> <<Lit("mayor"), Sp1, Lit("a"), Sp1, Run1("d")>>, op |-> ">", idx |-> 1],
    [re |-> <<Lit("menor"), Sp1, Lit("a"), Sp1, Run1("d")>>, op |-> "<", idx |-> 1],
    [re |-> <<Alt(<<">=", "=>">>), Sp0, Run1("d")>>, op |-> ">=", idx |-> 2],
    [re |-> <<Alt(<<"<=", "=<">>), Sp0, Run1("d")>>, op |-> "<=", idx |-> 2],
    [re |-> <<Alt(<<">", "<">>), Sp0, Run1("d")>>, op |-> "", idx |-> 2] >>

\* server.js:388-395  the patterns from the i-th on; some = FALSE stands for null
RECURSIVE parseThresholdFrom(_, _)
thresholdOf(nq, i, o, m) ==
    IF m.ok THEN [some |-> TRUE, op |-> IF o.op # "" THEN o.op ELSE m.caps[1], val |-> digitsValue(m.caps[o.idx])]
    ELSE parseThresholdFrom(nq, i + 1)
parseThresholdFrom(nq, i) ==
    IF i > Len(ThresholdOps) THEN [some |-> FALSE, op |-> "", val |-> 0]
    ELSE thresholdOf(nq, i, ThresholdOps[i], match(ThresholdOps[i].re, nq))
\* server.js:378  parseThreshold
parseThreshold(nq) == parseThresholdFrom(nq, 1)

\* server.js:400-407
passes(n, thr) ==
    IF ~isFinite(n) THEN FALSE
    ELSE CASE thr.op = ">"  -> tenths(n) >  10 * thr.val
           [] thr.op = "<"  -> tenths(n) <  10 * thr.val
           [] thr.op = ">=" -> tenths(n) >= 10 * thr.val
           [] thr.op = "<=" -> tenths(n) <= 10 * thr.val
           [] OTHER         -> TRUE
\* server.js:398  passThreshold, thr not null
passThreshold(v, thr) == passes(toNum(v), thr)

\* norm(x) of a cell: norm's default parameter turns undefined into ""
normCell(v) == IF v.t = "undef" THEN "" ELSE norm(String(v))

\* server.js:299  tokenizeName
tokenizeName(s) == words(norm(s))

SuggestOnMatch == 5    \* scored.slice(1, 6)
SuggestOnMiss  == 10   \* scored.slice(0, 10)

\* server.js:302  the name column of the rows
nameKeyOf(rows) ==
    IF rows = <<>> THEN "NOMBRE" ELSE columnNamed(keysOf(rows[1]), "nombre", "NOMBRE")

\* server.js:309-310  how many tokens of the query the name has
hitsIn(qTok, nTok) == Cardinality({j \in 1..Len(qTok) : qTok[j] \in Range(nTok)})
hitsOf(qTok, cell) == hitsIn(qTok, tokenizeName(IF cell.t = "undef" THEN "" ELSE String(cell)))
\* server.js:308-313  the rows with a token of the query in the name, best first
scoredRows(rows, nameKey, qTok) ==
    sortBy(SelectSeq([i \in 1..Len(rows) |->
                         [r |-> rows[i], hits |-> hitsOf(qTok, get(rows[i], nameKey)),
                          len |-> Len(normCell(get(rows[i], nameKey)))]],
                     LAMBDA x : x.hits > 0),
           LAMBDA a, b : a.hits > b.hits \/ (a.hits = b.hits /\ a.len < b.len))

namesOf(xs, nameKey) == [i \in 1..Len(xs) |-> get(xs[i].r, nameKey)]
\* the variant a slip in the slice would give: the match stands among its own
\* suggestions
bestScoredAll(nameKey, scored, need) ==
    IF scored # <<>> /\ scored[1].hits >= need
    THEN [found |-> TRUE, student |-> scored[1].r,
          suggestions |-> namesOf(slice(scored, 0, SuggestOnMatch), nameKey)]
    ELSE [found |-> FALSE, student |-> <<>>,
          suggestions |-> namesOf(slice(scored, 0, SuggestOnMiss), nameKey)]
\* server.js:315-318
bestScored(nameKey, scored, need) ==
    IF scored # <<>> /\ scored[1].hits >= need
    THEN [found |-> TRUE, student |-> scored[1].r,
          suggestions |-> namesOf(slice(scored, 1, 1 + SuggestOnMatch), nameKey)]
    ELSE [found |-> FALSE, student |-> <<>>,
          suggestions |-> namesOf(slice(scored, 0, SuggestOnMiss), nameKey)]
\* the variant a slip in the threshold would give: one hit is enough for every query
bestByTokensOne(rows, nameKey, qTok) == bestScored(nameKey, scoredRows(rows, nameKey, qTok), 1)
\* server.js:307-318
bestByTokens(rows, nameKey, qTok) ==
    bestScored(nameKey, scoredRows(rows, nameKey, qTok), IF Len(qTok) < 2 THEN Len(qTok) ELSE 2)
\* server.js:304-305  rows.find(r => norm(r[nameKey]) === qn)
firstExact(rows, nameKey, qn, i) ==
    normCell(get(rows[i], nameKey)) = qn /\ \A j \in 1..(i - 1) : normCell(get(rows[j], nameKey)) # qn
bestByName(rows, qn, nameKey) ==
    IF \E i \in 1..Len(rows) : firstExact(rows, nameKey, qn, i)
    THEN [found |-> TRUE, student |-> rows[CHOOSE i \in 1..Len(rows) : firstExact(rows, nameKey, qn, i)],
          suggestions |-> <<>>]
    ELSE bestByTokens(rows, nameKey, tokenizeName(qn))
\* findBestStudent that takes an exact name only
findExactStudent(rows, query) ==
    IF \E i \in 1..Len(rows) : firstExact(rows, nameKeyOf(rows), norm(query), i)
    THEN [found |-> TRUE, suggestions |-> <<>>,
          student |-> rows[CHOOSE i \in 1..Len(rows) : firstExact(rows, nameKeyOf(rows), norm(query), i)]]
    ELSE [found |-> FALSE, student |-> <<>>, suggestions |-> <<>>]

\* server.js:300  findBestStudent: found = FALSE stands for student: null
findBestStudent(rows, query) == bestByName(rows, norm(query), nameKeyOf(rows))

\* the response envelope { ok, general, lists, tables } and the error response
NoResponse == [kind |-> "none"]     \* no response sent yet
Envelope(general, lists, tables) ==
    [status |-> 200, ok |-> TRUE, general |-> general, lists |-> lists, tables |-> tables, error |-> ""]
ErrorResponse(status, error) ==
    [status |-> status, ok |-> FALSE, general |-> "", lists |-> <<>>, tables |-> <<>>, error |-> error]
Table(title, columns, rows) == [title |-> title, columns |-> columns, rows |-> rows]
List(title, items) == [title |-> title, items |-> items]

StrengthFrom == 71   \* v >= 71
GrowthUpTo   == 40   \* v <= 40
ReportItems  == 5    \* slice(0, 5)

DOMS == << "PROMEDIO DE HABILIDADES INTRAPERSONALES", "PROMEDIO DE HABILIDADES INTERPERSONALES",
           "PROMEDIO DE HABILIDADES PARA LA VIDA", "PROMEDIO DE INTELIGENCIA EMOCIONAL" >>
HABS == << "AUTOESTIMA", "ASERTIVIDAD", "CONCIENCIA DE LOS DEMÁS", "EMPATÍA", "MOTIVACIÓN",
           "COMPROMISO", "ADMINISTRACIÓN DEL TIEMPO", "TOMA DE DECISIONES", "LIDERAZGO" >>

\* the keys of the student's object: the names of the name, course and class columns
keysFor(columns) ==
    [name  |-> columnNamed(columns, "nombre", "NOMBRE"),
     par   |-> columnNamed(columns, "paralelo", "PARALELO"),
     curso |-> columnNamed(columns, "curso", "CURSO")]

\* server.js:433  key, and the score of the student under it
scoreOf(student, h) == [h |-> h, raw |-> get(student, h), v |-> toNum(get(student, h))]
scores(student, columns, names) ==
    [i \in 1..Len(names) |-> scoreOf(student, columnNamed(columns, norm(names[i]), names[i]))]
\* server.js:464-467  pares
pares(xs) == SelectSeq(xs, LAMBDA x : x.raw # Undefined /\ x.raw # Str("") /\ isFinite(x.v))
descending(xs) == sortBy(xs, LAMBDA a, b : lt(b.v, a.v))
ascending(xs)  == sortBy(xs, LAMBDA a, b : lt(a.v, b.v))
scoreItems(xs) == [i \in 1..Len(xs) |-> Str(xs[i].h \o ": " \o String(xs[i].v) \o " (" \o bucket(xs[i].v) \o ")")]
scoreRows(xs)  == [i \in 1..Len(xs) |-> <<Str(xs[i].h), xs[i].v, Str(bucket(xs[i].v))>>]
listIf(title, its) == IF its # <<>> THEN <<List(title, its)>> ELSE <<>>
\* server.js:477
reportGeneral(nombre, curso, paralelo, ie) ==
    "Informe socioemocional de " \o String(nombre) \o " (CURSO " \o String(curso) \o ", PARALELO "
    \o String(paralelo) \o "). IE Global: " \o (IF isFinite(ie) THEN String(ie) ELSE Dash)
    \o " (" \o bucket(ie) \o ")."
\* server.js:459-491  the report of the student found
reportOf(student, K, ie, ps, doms) ==
    Envelope(reportGeneral(get(student, K.name), get(student, K.curso), get(student, K.par), ie),
             listIf("Fortalezas destacadas",
                    scoreItems(slice(descending(SelectSeq(ps, LAMBDA x : tenths(x.v) >= 10 * StrengthFrom)), 0, ReportItems)))
             \o listIf("Áreas de mejora prioritarias",
                       scoreItems(slice(ascending(SelectSeq(ps, LAMBDA x : tenths(x.v) <= 10 * GrowthUpTo)), 0, ReportItems))),
             << Table("Perfil por Habilidad", <<"Habilidad", "Puntaje", "Rango">>, scoreRows(descending(ps))),
                Table("Dominios", <<"Dominio", "Puntaje", "Rango">>,
                      scoreRows(SelectSeq(doms, LAMBDA x : isFinite(x.v)))) >>)
\* server.js:423-431  the student found, or the suggestions
reportFor(best, columns, personRaw) ==
    IF ~best.found
    THEN Envelope("No encontré a '" \o personRaw \o "' en decimo.csv.",
                  listIf("¿Quizás te refieres a...?", best.suggestions), <<>>)
    ELSE reportOf(best.student, keysFor(columns),
                  toNum(get(best.student, columnNamed(columns, norm("PROMEDIO DE INTELIGENCIA EMOCIONAL"),
                                                      "PROMEDIO DE INTELIGENCIA EMOCIONAL"))),
                  pares(scores(best.student, columns, HABS)), scores(best.student, columns, DOMS))
\* server.js:418  buildStudentReport
buildStudentReport(rows, columns, personRaw) == reportFor(findBestStudent(rows, personRaw), columns, personRaw)


\* server.js:572  q.replace(/.*reporte\s+completo\s+de\s+/i, "").trim(): the greedy
\* prefix takes the last place where the phrase stands
ReportPhrase == <<Lit("reporte"), Sp1, Lit("completo"), Sp1, Lit("de"), Sp1>>
RECURSIVE lastMatch(_, _, _)
lastMatch(pat, s, i) ==
    IF i < 1 THEN NoMatch
    ELSE IF matchAt(pat, 1, s, i, TRUE).ok THEN matchAt(pat, 1, s, i, TRUE)
    ELSE lastMatch(pat, s, i - 1)
afterMatch(q, m) == trim(IF m.ok THEN SubSeq(q, m.to, Len(q)) ELSE q)
personOf(q) == afterMatch(q, lastMatch(ReportPhrase, q, Len(q)))

ThresholdRows == 200   \* data.slice(0, 200)
TextLimit     == 1200  \* txt.slice(0, 1200)
Ellipsis      == " ..."  \* " " and the ellipsis U+2026, written in ASCII

\* the conditions of the rules of /api/answer, each as the handler tests it
isReport(nq)     == has(nq, {"reporte completo de"})
SamplePhrase     == <<Lit("muestra"), Sp1, Run1("d"), Sp1, Lit("filas")>>
isSample(nq)     == match(SamplePhrase, nq).ok
isAverage(nq)    == has(nq, {"promedio", "media"})
isTopN(nq)       == parseTopBottom(nq).some
isThreshold(nq)  == has(nq, {"quien", "quienes", "lista", "listar", "muestrame", "mostrar"})
                    /\ parseThreshold(nq).some
PercentilePhrase == <<Lit("percentil"), Sp1, Lit("de"), Sp1, Lazy1, Sp1, Lit("en"), Sp1, Run1(".")>>
isPercentile(nq) == has(nq, {"percentil"}) /\ matchI(PercentilePhrase, nq).ok
isTextLookup(nq) == has(nq, {"segun", "según"})
                    /\ has(nq, {"emocionales txt", "evaluacion txt", "ubicacion txt"})

\* ${Object.keys(filterObj).length ? text : ""}
filtrado(filtered, text) == IF filtered THEN text ELSE ""
cells(r, keys) == [i \in 1..Len(keys) |-> get(r, keys[i])]
\* Number.isFinite(n) ? n : "—"  (isNaN(n) ? "—" : n for a mean)
orDash(n) == IF isFinite(n) THEN n ELSE Str(Dash)
column(arr, measure) == [i \in 1..Len(arr) |-> get(arr[i], measure)]

\* server.js:583-586
sampleCols(base, measure) == IF measure \in Range(base) THEN base ELSE Append(base, measure)
sampleTable(head, n, subsetCols) ==
    Envelope("Primeras " \o String(Num(n)) \o " filas.", <<>>,
             <<Table("Muestra", subsetCols, [i \in 1..Len(head) |-> cells(head[i], subsetCols)])>>)
sampleOf(rows, n, subsetCols) == sampleTable(slice(rows, 0, n), n, subsetCols)
\* server.js:577  the Sample rule
answerSample(nq, rows, columns, sample, K) ==
    sampleOf(rows, clampTop(digitsValue(match(SamplePhrase, nq).caps[1])),
             sampleCols(<<K.name, K.curso, K.par>>, pickMeasure(nq, columns, sample)))

\* server.js:607-610  one row per group, sorted by String(key).localeCompare
groupRows(groups, measure) ==
    sortBy([i \in 1..Len(groups) |-> <<groups[i].key, orDash(mean(column(groups[i].rows, measure)))>>],
           LAMBDA a, b : localeLess(String(a[1]), String(b[1])))
\* server.js:597-616
averageTable(base, measure, groupKey, filtered) ==
    IF groupKey = ""
    THEN Envelope("Promedio de " \o measure \o filtrado(filtered, " (filtrado)") \o ".", <<>>,
                  <<Table("Promedio", <<"Métrica", "Promedio">>,
                          <<<<Str(measure), orDash(mean(column(base, measure)))>>>>)>>)
    ELSE Envelope("Promedio de " \o measure \o " por " \o groupKey \o filtrado(filtered, " (filtrado)") \o ".",
                  <<>>, <<Table(groupKey, <<groupKey, "Promedio">>, groupRows(by(base, groupKey), measure))>>)
averageOf(rows, measure, groupKey, filterObj) ==
    averageTable(filterByObj(rows, filterObj), measure, groupKey, filterObj # <<>>)
\* server.js:590  the Average rule
answerAverage(nq, rows, columns, sample) ==
    averageOf(rows, pickMeasure(nq, columns, sample), parseGroupKey(nq, columns), parseGroupFilter(nq, columns))

\* the rows [name, paralelo, curso, toNum(measure)] with a finite measure
measured(rows, K, measure) ==
    SelectSeq([i \in 1..Len(rows) |-> <<get(rows[i], K.name), get(rows[i], K.par),
                                        get(rows[i], K.curso), toNum(get(rows[i], measure))>>],
              LAMBDA x : isFinite(x[4]))

\* server.js:625-635
topTable(rows, K, tb, measure, filterObj) ==
    Envelope("Top " \o String(Num(tb.k)) \o " por " \o measure
             \o (IF tb.order = "asc" THEN " (más baja)" ELSE " (más alta)")
             \o filtrado(filterObj # <<>>, " (filtrado)") \o ".", <<>>,
             <<Table("Top", <<K.name, K.par, K.curso, measure>>,
                     slice(sortBy(measured(filterByObj(rows, filterObj), K, measure),
                                  LAMBDA a, b : IF tb.order = "desc" THEN lt(b[4], a[4]) ELSE lt(a[4], b[4])),
                           0, tb.k))>>)
\* server.js:619  the Top/Bottom rule
answerTop(nq, rows, columns, sample, K) ==
    topTable(rows, K, parseTopBottom(nq), pickMeasure(nq, columns, sample), parseGroupFilter(nq, columns))

\* server.js:645-655
thresholdTable(rows, K, thr, measure, filterObj) ==
    Envelope("Listado por umbral (" \o measure \o " " \o thr.op \o " " \o String(Num(thr.val)) \o ")"
             \o filtrado(filterObj # <<>>, " (filtrado)") \o ".", <<>>,
             <<Table("Resultados", <<K.name, K.par, K.curso, measure>>,
                     slice(sortBy(SelectSeq(measured(filterByObj(rows, filterObj), K, measure),
                                            LAMBDA x : passThreshold(x[4], thr)),
                                  LAMBDA a, b : lt(b[4], a[4])),
                           0, ThresholdRows))>>)
\* server.js:639  the Threshold rule
answerThreshold(nq, rows, columns, sample, K) ==
    thresholdTable(rows, K, parseThreshold(nq), pickMeasure(nq, columns, sample), parseGroupFilter(nq, columns))

\* server.js:674-679
percentileDetail(K, student, measure, filtered, val, p) ==
    Envelope("Percentil de " \o String(get(student, K.name)) \o " en " \o measure
             \o filtrado(filtered, " (cohorte filtrada)") \o ": "
             \o (IF isFinite(p) THEN String(p) ELSE Dash) \o ".", <<>>,
             <<Table("Detalle", <<"Alumno", "Paralelo", "Curso", "Métrica", "Valor", "Percentil">>,
                     << <<get(student, K.name), get(student, K.par), get(student, K.curso),
                          Str(measure), orDash(val), orDash(p)>> >>)>>)
\* server.js:672-673
percentileRank(K, student, measure, filtered, val, cohort) ==
    percentileDetail(K, student, measure, filtered, val, percentileOf(val, cohort))
\* server.js:669-670
percentileFound(K, base, personRaw, measure, filtered, best) ==
    IF ~best.found THEN Envelope("No encontré a '" \o personRaw \o "'.", <<>>, <<>>)
    ELSE percentileRank(K, best.student, measure, filtered, toNum(get(best.student, measure)),
                        [i \in 1..Len(base) |-> toNum(get(base[i], measure))])
\* server.js:667-669
percentileAmong(K, base, personRaw, measure, filtered) ==
    percentileFound(K, base, personRaw, measure, filtered, findBestStudent(base, personRaw))
\* server.js:663-667
percentileFor(K, rows, personRaw, measure, filterObj) ==
    percentileAmong(K, filterByObj(rows, filterObj), personRaw, measure, filterObj # <<>>)
percentileMatched(nq, rows, columns, sample, K, m) ==
    percentileFor(K, rows, trim(m.caps[1]), pickMeasure(norm(trim(m.caps[2])), columns, sample),
                  parseGroupFilter(nq, columns))
\* server.js:659  the Percentile rule
answerPercentile(nq, rows, columns, sample, K) ==
    percentileMatched(nq, rows, columns, sample, K, matchI(PercentilePhrase, nq))

\* server.js:685  the document a TextLookup question names
textFile(nq) ==
    IF has(nq, {"ubicacion txt"}) THEN "ubicacion.txt"
    ELSE IF has(nq, {"evaluacion txt"}) THEN "evaluacion.txt"
    ELSE "emocionales.txt"

\* server.js:689  the answer of a TextLookup question once readText has returned
answerText(fname, txt) ==
    IF txt = "" THEN Envelope("No encontré " \o fname \o " en storage.", <<>>, <<>>)
    ELSE Envelope(SubSeq(txt, 1, IF Len(txt) < TextLimit THEN Len(txt) ELSE TextLimit)
                  \o (IF Len(txt) > TextLimit THEN Ellipsis ELSE ""), <<>>, <<>>)

\* server.js:694  the Fallback answer (its examples left out)
FallbackText == "No entendí del todo. Ejemplos: ..."

Ruled(intent, resp) == [intent |-> intent, fname |-> "", resp |-> resp]

\* server.js:570-698  the rules in the order of the handler: the rule that answers
\* (intent) and its envelope; a TextLookup answer still waits for readText
rules(q, nq, rows, columns, sample, K) ==
    IF isReport(nq) THEN Ruled("Report", buildStudentReport(rows, columns, personOf(q)))
    ELSE IF isSample(nq) THEN Ruled("Sample", answerSample(nq, rows, columns, sample, K))
    ELSE IF isAverage(nq) THEN Ruled("Average", answerAverage(nq, rows, columns, sample))
    ELSE IF isTopN(nq) THEN Ruled("TopN", answerTop(nq, rows, columns, sample, K))
    ELSE IF isThreshold(nq) THEN Ruled("Threshold", answerThreshold(nq, rows, columns, sample, K))
    ELSE IF isPercentile(nq) THEN Ruled("Percentile", answerPercentile(nq, rows, columns, sample, K))
    ELSE IF isTextLookup(nq) THEN [intent |-> "TextLookup", fname |-> textFile(nq), resp |-> NoResponse]
    ELSE Ruled("Fallback", Envelope(FallbackText, <<>>, <<>>))

\* server.js:560-698  /api/answer after loadCSV has returned rows; sample is
\* globalThis.__sampleRow, just assigned rows[0]
answerRows(q, rows, columns, sample) == rules(q, norm(q), rows, columns, sample, keysFor(columns))

----------------------------------------------------------------------------
(* JSON: the values JSON.parse gives and res.json sends.  The texts of the *)
(* model hold objects, arrays, strings without escapes, whole numbers,     *)
(* true, false and null, separated by spaces.                              *)

JValue(t, s, n, d, keys, items) ==
    [t |-> t, s |-> s, n |-> n, d |-> d, keys |-> keys, items |-> items]
JUndefined      == JValue("undefined", "", 0, 0, <<>>, <<>>)    \* a property that is absent
JNull           == JValue("null", "", 0, 0, <<>>, <<>>)
JBool(b)        == JValue(IF b THEN "true" ELSE "false", "", 0, 0, <<>>, <<>>)
JStr(s)         == JValue("string", s, 0, 0, <<>>, <<>>)
JNum(n, d)      == JValue("number", "", n, d, <<>>, <<>>)
JArr(items)     == JValue("array", "", 0, 0, <<>>, items)
JObj(keys, items) == JValue("object", "", 0, 0, keys, items)

\* o[key] of a parsed value
jget(o, key) ==
    IF o.t = "object" /\ \E i \in 1..Len(o.keys) : o.keys[i] = key
    THEN o.items[CHOOSE i \in 1..Len(o.keys) : o.keys[i] = key]
    ELSE JUndefined
\* the truthiness of a value: x || y, !x, if (x)
truthy(v) ==
    CASE v.t \in {"undefined", "null", "false"} -> FALSE
      [] v.t = "string" -> v.s # ""
      [] v.t = "number" -> v.n # 0 \/ v.d # 0
      [] OTHER -> TRUE
\* typeof x === "object"
isObject(v) == v.t \in {"object", "array", "null"}
\* Array.isArray(x)
isArray(v) == v.t = "array"

\* the character of s at position i, "" outside s
at(s, i) == IF 1 <= i /\ i <= Len(s) THEN ch(s, i) ELSE ""
RECURSIVE skipWs(_, _)
skipWs(s, i) == IF IsSpace(at(s, i)) THEN skipWs(s, i + 1) ELSE i
\* position of the first character c of s at or after i, 0 when there is none
RECURSIVE nextOf(_, _, _)
nextOf(s, c, i) == IF i > Len(s) THEN 0 ELSE IF ch(s, i) = c THEN i ELSE nextOf(s, c, i + 1)

\* a step of the parser: the value read and the position after it
JFail == [ok |-> FALSE, v |-> JUndefined, at |-> 0]
JRead(v, i) == [ok |-> TRUE, v |-> v, at |-> i]

jsonWord(s, i, word, v) ==
    IF i + Len(word) - 1 <= Len(s) /\ SubSeq(s, i, i + Len(word) - 1) = word
    THEN JRead(v, i + Len(word)) ELSE JFail
\* the string that opens at i and closes at j
jsonStringTo(s, i, j) == IF j = 0 THEN JFail ELSE JRead(JStr(SubSeq(s, i + 1, j - 1)), j + 1)
jsonString(s, i) == IF at(s, i) = "\"" THEN jsonStringTo(s, i, nextOf(s, "\"", i + 1)) ELSE JFail
\* the n digits at i: a numeral has no leading zero
jsonDigits(s, i, n) ==
    IF n > 1 /\ ch(s, i) = "0" THEN JFail
    ELSE JRead(JNum(digitsValue(SubSeq(s, i, i + n - 1)), 0), i + n)

RECURSIVE jsonValue(_, _), jsonAt(_, _, _), jsonMember(_, _, _, _), jsonMembers(_, _, _, _),
          jsonMore(_, _, _, _, _), jsonElements(_, _, _)
\* the value at the first character after the spaces at i
jsonValue(s, i) == jsonAt(s, skipWs(s, i), at(s, skipWs(s, i)))
jsonAt(s, i, c) ==
    CASE c = "{"  -> IF at(s, skipWs(s, i + 1)) = "}" THEN JRead(JObj(<<>>, <<>>), skipWs(s, i + 1) + 1)
                     ELSE jsonMembers(s, i + 1, <<>>, <<>>)
      [] c = "["  -> IF at(s, skipWs(s, i + 1)) = "]" THEN JRead(JArr(<<>>), skipWs(s, i + 1) + 1)
                     ELSE jsonElements(s, i + 1, <<>>)
      [] c = "\"" -> jsonString(s, i)
      [] c = "t"  -> jsonWord(s, i, "true", JBool(TRUE))
      [] c = "f"  -> jsonWord(s, i, "false", JBool(FALSE))
      [] c = "n"  -> jsonWord(s, i, "null", JNull)
      [] OTHER    -> IF IsDigit(c) THEN jsonDigits(s, i, runLen("d", s, i)) ELSE JFail
\* the members of an object from i: "key" : value, then "," or "}"
jsonMembers(s, i, keys, items) == jsonMember(s, keys, items, jsonString(s, skipWs(s, i)))
jsonMember(s, keys, items, k) ==
    IF k.ok /\ at(s, skipWs(s, k.at)) = ":"
    THEN jsonMore(s, "}", Append(keys, k.v.s), items, jsonValue(s, skipWs(s, k.at) + 1))
    ELSE JFail
\* after the value v of a member or an element: "," and the next one, or the end
jsonMore(s, close, keys, items, v) ==
    IF ~v.ok THEN JFail
    ELSE IF at(s, skipWs(s, v.at)) = ","
         THEN IF close = "}" THEN jsonMembers(s, skipWs(s, v.at) + 1, keys, Append(items, v.v))
              ELSE jsonElements(s, skipWs(s, v.at) + 1, Append(items, v.v))
    ELSE IF at(s, skipWs(s, v.at)) = close
         THEN JRead(IF close = "}" THEN JObj(keys, Append(items, v.v)) ELSE JArr(Append(items, v.v)),
                    skipWs(s, v.at) + 1)
    ELSE JFail
jsonElements(s, i, items) == jsonMore(s, "]", <<>>, items, jsonValue(s, i))

\* JSON.parse(text): ok = FALSE stands for the SyntaxError it throws
jsonWhole(s, r) == IF r.ok /\ skipWs(s, r.at) = Len(s) + 1 THEN r ELSE JFail
JSONparse(text) == jsonWhole(text, jsonValue(text, 1))

\* res.json(x) of the values the handlers build: NaN and undefined become null
jsonCell(v) ==
    CASE v.t = "str" -> JStr(v.s)
      [] v.t = "num" -> JNum(v.n, v.d)
      [] OTHER       -> JNull
jsonCells(xs)   == JArr([i \in 1..Len(xs) |-> jsonCell(xs[i])])
jsonStrings(xs) == JArr([i \in 1..Len(xs) |-> JStr(xs[i])])
JTable(title, columns, rows) ==
    JObj(<<"title", "columns", "rows">>,
         <<JStr(title), jsonStrings(columns), JArr([i \in 1..Len(rows) |-> jsonCells(rows[i])])>>)
JList(title, items) == JObj(<<"title", "items">>, <<JStr(title), jsonCells(items)>>)
\* { ok:true, general, lists, tables }
JEnvelope(general, lists, tables) ==
    JObj(<<"ok", "general", "lists", "tables">>, <<JBool(TRUE), JStr(general), JArr(lists), JArr(tables)>>)
\* { ok:false, error }
JError(error) == JObj(<<"ok", "error">>, <<JBool(FALSE), JStr(error)>>)
\* res.status(status).json(body)
Response(status, body) == [status |-> status, body |-> body]

----------------------------------------------------------------------------
(* What the handlers make of the text of the text-generation call          *)

\* text.match(/\{[\s\S]*\}$/): from the first "{" to the end of a text that ends with "}"
blockFrom(text, first) ==
    IF first > 0 /\ at(text, Len(text)) = "}"
    THEN [ok |-> TRUE, s |-> SubSeq(text, first, Len(text))]
    ELSE [ok |-> FALSE, s |-> ""]
trailingBlock(text) == blockFrom(text, nextOf(text, "{", 1))

\* the message of the SyntaxError of JSON.parse
SyntaxError == "Unexpected token in JSON"

\* part_001:194, 242, 323  res.json(parsed || fallback)
orFallback(p, fallback) == Response(200, IF p.ok /\ truthy(p.v) THEN p.v ELSE fallback)
\* part_001:193, 241, 322  try { parsed = JSON.parse(text); } catch { parsed = null; }
shapeDirect(text, fallback) == orFallback(JSONparse(text), fallback)

\* part_001:215, 343  catch { const m = text.match(...); parsed = m ? JSON.parse(m[0]) : null; }
\* the SyntaxError of JSON.parse(m[0]) reaches the catch of the handler, part_001:347
blockParsed(p, fallback) == IF p.ok THEN orFallback(p, fallback) ELSE Response(500, JError(SyntaxError))
blockOr(m, fallback) == IF m.ok THEN blockParsed(JSONparse(m.s), fallback) ELSE Response(200, fallback)
directOr(text, p, fallback) == IF p.ok THEN orFallback(p, fallback) ELSE blockOr(trailingBlock(text), fallback)
shapeBlock(text, fallback) == directOr(text, JSONparse(text), fallback)

\* server.js:835
Placeholder ==
    "No pude interpretar la salida del modelo. Reformula (ej.: 'top 5 en AUTOESTIMA', "
        \o "'promedio de IE por PARALELO', 'reporte de Apellido Nombre')."
\* server.js:828-833  parsed, or the trailing block parsed, or undefined (ok = FALSE)
blockTried(m) == IF m.ok THEN JSONparse(m.s) ELSE JFail
parsedOrBlock(raw0, p) == IF p.ok THEN p ELSE blockTried(trailingBlock(raw0))
\* server.js:843-848  the fields of the parsed object, with defaults
normalized(ok, general, lists, tables) ==
    JObj(<<"ok", "general", "lists", "tables">>,
         <<JBool(ok.t # "false"),
           IF truthy(general) THEN general ELSE JStr(""),
           IF isArray(lists) THEN lists ELSE JArr(<<>>),
           IF isArray(tables) THEN tables ELSE JArr(<<>>)>>)
\* server.js:834-848
shapeParsed(p) ==
    IF ~p.ok \/ ~truthy(p.v) \/ ~isObject(p.v)
    THEN Response(200, JEnvelope(Placeholder, <<>>, <<>>))
    ELSE Response(200, normalized(jget(p.v, "ok"), jget(p.v, "general"), jget(p.v, "lists"), jget(p.v, "tables")))
\* server.js:826-849  what /api/ask sends for the text raw0 of callOpenAIJSON
shapeUniversal(raw0) == shapeParsed(parsedOrBlock(raw0, JSONparse(raw0)))

\* part_002:257-271  the parsed object when it is one with a truthy ok, else the text wrapped
wrapOr(text, p) ==
    IF p.ok /\ truthy(p.v) /\ isObject(p.v) /\ truthy(jget(p.v, "ok"))
    THEN Response(200, p.v)
    ELSE Response(200, JEnvelope(text, <<>>, <<>>))
wrapTrimmed(text) == wrapOr(text, JSONparse(text))
\* part_002:254-271  what /api/answer sends for the content of the chat completion
shapeAnswer(content) == wrapTrimmed(trim(content))

----------------------------------------------------------------------------
(* src/unnamed/part_001: the FAST server.  Its rows keep the cells as the  *)
(* strings of the file.                                                    *)

\* part_001:68-73  the rows under the columns
rowsUnder(columns, lines, delim) ==
    [columns |-> columns,
     rows |-> [i \in 1..(Len(lines) - 1) |->
                  makeRow(columns, unquoteAll(split(lines[i + 1], delim)), Len(columns))]]
\* part_001:66-67
splitWith(lines, delim) == rowsUnder(trimAll(split(lines[1], delim)), lines, delim)
\* part_001:64-66
linesFast(lines) ==
    IF lines = <<>> THEN [columns |-> <<>>, rows |-> <<>>]
    ELSE splitWith(lines, IF includes(lines[1], ";") THEN ";" ELSE ",")
\* part_001:60  loadCSV, of a file that can be read
loadCSVFast(file) == linesFast(SelectSeq(file.lines, LAMBDA l : trim(l) # ""))

\* part_001:104  RX
RX ==
    [reporte   |-> <<Lit("reporte"), Sp1, Lit("completo"), Sp1, Lit("de"), Sp1, Run1(".")>>,
     percentil |-> <<Lit("percentil"), Sp1, Lit("de"), Sp1, Lazy1, Sp1, Lit("en"), Sp1, Run1(".")>>,
     promedio  |-> <<WordB, Alt(<<"promedio", "media">>), WordB>>,
     top       |-> <<WordB, Lit("top"), Sp1, Run1("d")>>,
     umbral    |-> <<Alt(<<">=", "=>", "<=", "=<", ">", "<">>), Sp0, Run1("d")>>]

\* columns.find(c => norm(c) === name) || fallback
columnFast(columns, name, fallback) ==
    orElse(findFirst(columns, {c \in Range(columns) : normFast(c) = name}), fallback)
\* part_001:112  keys
keys(columns) ==
    [name  |-> columnFast(columns, "nombre", "NOMBRE"),
     par   |-> columnFast(columns, "paralelo", "PARALELO"),
     curso |-> columnFast(columns, "curso", "CURSO")]

\* norm(x) of a cell: norm's default parameter turns undefined into ""
normCellFast(v) == IF v.t = "undef" THEN "" ELSE normFast(String(v))
\* rows.find(...): the first of the rows at the positions hits
firstAt(rows, hits) ==
    IF hits = {} THEN [found |-> FALSE, row |-> <<>>]
    ELSE [found |-> TRUE, row |-> rows[CHOOSE i \in hits : \A j \in hits : i <= j]]
\* part_001:121  the row whose name is q, else the first whose name includes q
exactOrPartial(rows, exact, partial) == firstAt(rows, IF exact # {} THEN exact ELSE partial)
findByNorm(rows, nameCol, q) ==
    exactOrPartial(rows,
                   {i \in 1..Len(rows) : normCellFast(get(rows[i], nameCol)) = q},
                   {i \in 1..Len(rows) : includes(normCellFast(get(rows[i], nameCol)), q)})
\* part_001:119  findByName: found = FALSE stands for undefined
findByName(rows, nameCol, person) == findByNorm(rows, nameCol, normFast(person))

\* part_001:123  numericCols
numericCols(columns, rows) ==
    SelectSeq(columns, LAMBDA c : \E i \in 1..Len(rows) : isFinite(toNumFast(get(rows[i], c))))
FirstNumeric == 4    \* nums.slice(0, 4)
mentionedOr(mentioned, nums) == IF mentioned # <<>> THEN mentioned ELSE slice(nums, 0, FirstNumeric)
mentionedIn(n, nums) == mentionedOr(SelectSeq(nums, LAMBDA c : includes(n, normFast(c))), nums)
\* part_001:126  pickMentionedNumeric
pickMentionedNumeric(q, columns, rows) == mentionedIn(normFast(q), numericCols(columns, rows))

\* what the synchronous part of /api/ask comes to: a response (awaits = FALSE, body
\* is what is sent with status), or the call of askGPT under withTimeout(ms) with the
\* envelope body kept for res.json(parsed || body); block: the catch of JSON.parse
\* tries the trailing block; txt: the prompt holds the texts of TXT; rows: DATA.rows
\* as the handler leaves them
Plan(intent, awaits, status, body, ms, block, txt, rows) ==
    [intent |-> intent, awaits |-> awaits, status |-> status, body |-> body,
     ms |-> ms, block |-> block, txt |-> txt, rows |-> rows]
Answer(intent, status, body, rows) == Plan(intent, FALSE, status, body, 0, FALSE, FALSE, rows)

ReportMissTimeout == 8000    \* part_001:192
ReportTimeout     == 12000   \* part_001:214
PercentileTimeout == 8000    \* part_001:240
TableTimeout      == 7000    \* part_001:321
FallbackTimeout   == 10000   \* part_001:342
NamesScanned      == 300     \* rows.slice(0, 300)
NamesSuggested    == 5       \* names.slice(0, 5)
ResultRows        == 200     \* .slice(0, 200)

\* Boolean(x) of a cell
truthyCell(v) == (v.t = "str" /\ v.s # "") \/ (v.t = "num" /\ tenths(v) # 0)
\* part_001:184  rows.slice(0, 300).map(r => r[name]).filter(Boolean)
namesIn(rows, name) ==
    SelectSeq([i \in 1..Len(slice(rows, 0, NamesScanned)) |-> get(rows[i], name)], LAMBDA v : truthyCell(v))
notFound(person) == "No encontré a \"" \o person \o "\"."
\* part_001:182-195
reportMissing(rows, person, names) ==
    Plan("Report", TRUE, 200,
         JEnvelope(notFound(person), <<JList("Sugerencias", slice(names, 0, NamesSuggested))>>, <<>>),
         ReportMissTimeout, FALSE, FALSE, rows)
\* part_001:198-216
reportRow(rows, row, name) ==
    Plan("Report", TRUE, 200, JEnvelope("Informe de " \o String(get(row, name)), <<>>, <<>>),
         ReportTimeout, TRUE, TRUE, rows)
reportHit(rows, name, person, hit) ==
    IF hit.found THEN reportRow(rows, hit.row, name) ELSE reportMissing(rows, person, namesIn(rows, name))
reportPerson(rows, name, person) == reportHit(rows, name, person, findByName(rows, name, person))
\* part_001:179-217
askReport(q, rows, name) == reportPerson(rows, name, trim(matchI(RX.reporte, q).caps[1]))

noMetric(intent, rows) == Answer(intent, 200, JEnvelope("No identifiqué la métrica.", <<>>, <<>>), rows)
\* part_001:231-247
percentileCalled(rows, row, K, metric, val, p) ==
    Plan("Percentile", TRUE, 200,
         JEnvelope(String(get(row, K.name)) \o ": " \o metric \o "=" \o String(val) \o " (P" \o String(p) \o ").",
                   <<>>,
                   <<JTable("Detalle", <<"Alumno", K.par, K.curso, "Métrica", "Valor", "Percentil">>,
                            << <<get(row, K.name), get(row, K.par), get(row, K.curso), Str(metric), val, p>> >>)>>),
         PercentileTimeout, FALSE, FALSE, rows)
\* part_001:227-229
percentileValue(rows, row, K, metric, val) ==
    percentileCalled(rows, row, K, metric, val,
                     percentileOfFast(val, filterFinite([i \in 1..Len(rows) |-> toNumFast(get(rows[i], metric))])))
\* part_001:224-228
percentileHit(rows, K, metric, person, hit) ==
    IF ~hit.found THEN Answer("Percentile", 200, JEnvelope(notFound(person), <<>>, <<>>), rows)
    ELSE percentileValue(rows, hit.row, K, metric, toNumFast(get(hit.row, metric)))
\* part_001:222-224
percentileMetric(rows, K, person, picked) ==
    IF picked = <<>> \/ picked[1] = "" THEN noMetric("Percentile", rows)
    ELSE percentileHit(rows, K, picked[1], person, findByName(rows, K.name, person))
percentileCaps(rows, columns, K, caps) ==
    percentileMetric(rows, K, caps[1], pickMentionedNumeric(caps[2], columns, rows))
\* part_001:220-248
askPercentile(q, rows, columns, K) == percentileCaps(rows, columns, K, matchI(RX.percentil, q).caps)

\* part_001:257-261  the filter of the text: { [par]: ..., [curso]: ... }
filterCurso(f, K, mCur) ==
    IF mCur.ok THEN put(f, K.curso, Str(toUpperCase(normFast(mCur.caps[1])))) ELSE f
filterFast(K, mPar, mCur) ==
    filterCurso(IF mPar.ok THEN <<[k |-> K.par, v |-> Str(toUpperCase(mPar.caps[1]))]>> ELSE <<>>, K, mCur)
filteredMark(f) == IF f # <<>> THEN " (filtrado)" ELSE ""
\* part_001:263
baseRows(rows, f) ==
    SelectSeq(rows, LAMBDA r : \A j \in 1..Len(f) :
                                  normFast(String(get(r, f[j].k))) = normFast(String(f[j].v)))
\* part_001:264
numericOf(base, K, mcol) ==
    SelectSeq([i \in 1..Len(base) |->
                  [n |-> get(base[i], K.name), par |-> get(base[i], K.par),
                   cur |-> get(base[i], K.curso), v |-> toNumFast(get(base[i], mcol))]],
              LAMBDA x : isFinite(x.v))
\* .map(x => [x.n, x.par, x.cur, x.v])
outRows(xs) == [i \in 1..Len(xs) |-> <<xs[i].n, xs[i].par, xs[i].cur, xs[i].v>>]

\* part_001:319-323  the call that words the computed table
tableCalled(intent, rows, title, columns, trows) ==
    Plan(intent, TRUE, 200, JEnvelope(title, <<>>, <<JTable(title, columns, trows)>>),
         TableTimeout, FALSE, FALSE, rows)

\* part_001:273
LowWords == <<WordB, Alt(<<"mas baja", "más baja", "menor", "minimo", "mínimo", "peores">>), WordB>>
\* the TopN branch with the sort applied to the rows of DATA themselves
rowsSortedInPlace(rows, mcol, asc) ==
    sortBy(rows, LAMBDA a, b : IF asc THEN lt(toNumFast(get(a, mcol)), toNumFast(get(b, mcol)))
                               ELSE lt(toNumFast(get(b, mcol)), toNumFast(get(a, mcol))))
\* part_001:263-274  DATA.rows after the TopN branch: filter and map give new
\* arrays, the sort orders numeric in place and the rows of DATA keep their order
rowsAfterSort(rows, mcol, asc) == rows
\* part_001:271-278
topFast(rows, K, mcol, f, numeric, k, asc) ==
    tableCalled("TopN", rowsAfterSort(rows, mcol, asc),
                "Top " \o String(Num(k)) \o " por " \o mcol
                    \o (IF asc THEN " (más baja)" ELSE " (más alta)") \o filteredMark(f),
                <<K.name, K.par, K.curso, mcol>>,
                outRows(slice(IF asc THEN ascending(numeric) ELSE descending(numeric), 0, k)))

\* part_001:288-292  the Map from x.par or x.cur to the values, in first-seen order
RECURSIVE groupsOf(_, _)
groupsOf(numeric, key) ==
    IF numeric = <<>> THEN <<>>
    ELSE addTo(groupsOf(SubSeq(numeric, 1, Len(numeric) - 1), key),
               IF key = "par" THEN numeric[Len(numeric)].par ELSE numeric[Len(numeric)].cur,
               numeric[Len(numeric)].v)
\* Number.isFinite(m) ? Math.round(m*10)/10 : "—", m the mean part_001:48 gives
roundedOrDash(m) == IF isFinite(m) THEN m ELSE Str(Dash)
\* part_001:293-295
groupMeans(groups) ==
    sortBy([i \in 1..Len(groups) |-> <<groups[i].key, roundedOrDash(meanOf(filterFinite(groups[i].rows)))>>],
           LAMBDA a, b : localeLess(String(a[1]), String(b[1])))
\* part_001:285-297
averageGrouped(rows, mcol, f, numeric, key, titleKey) ==
    tableCalled("Average", rows, "Promedio de " \o mcol \o " por " \o titleKey \o filteredMark(f),
                <<titleKey, "Promedio">>, groupMeans(groupsOf(numeric, key)))
\* part_001:299-301
averagePlain(rows, mcol, f, numeric) ==
    tableCalled("Average", rows, "Promedio de " \o mcol \o filteredMark(f), <<"Métrica", "Promedio">>,
                << <<Str(mcol), roundedOrDash(meanOf([i \in 1..Len(numeric) |-> numeric[i].v]))>> >>)
\* part_001:281-303
averageFast(q, rows, K, mcol, f, numeric) ==
    IF matchI(<<WordB, Lit("por"), Sp1, Lit("paralelo"), WordB>>, q).ok
    THEN averageGrouped(rows, mcol, f, numeric, "par", K.par)
    ELSE IF matchI(<<WordB, Lit("por"), Sp1, Lit("curso"), WordB>>, q).ok
    THEN averageGrouped(rows, mcol, f, numeric, "cur", K.curso)
    ELSE averagePlain(rows, mcol, f, numeric)

\* part_001:309  pass
passFast(op, x, val) ==
    CASE op = ">"  -> lt(val, x)
      [] op = "<"  -> lt(x, val)
      [] op = ">=" -> leq(val, x)
      [] OTHER     -> leq(x, val)
\* part_001:306-313
thresholdFast(rows, K, mcol, f, numeric, op, val) ==
    tableCalled("Threshold", rows,
                "Listado por umbral (" \o mcol \o " " \o op \o " " \o String(val) \o ")" \o filteredMark(f),
                <<K.name, K.par, K.curso, mcol>>,
                outRows(slice(descending(SelectSeq(numeric, LAMBDA x : passFast(op, x.v, val))), 0, ResultRows)))

\* part_001:270-313  TopN, else Average, else Threshold
tablesOn(q, rows, K, mcol, f, numeric) ==
    IF matchI(RX.top, q).ok
    THEN topFast(rows, K, mcol, f, numeric, clampTop(digitsValue(matchI(RX.top, q).caps[1])),
                 matchI(LowWords, q).ok)
    ELSE IF matchI(RX.promedio, q).ok THEN averageFast(q, rows, K, mcol, f, numeric)
    ELSE thresholdFast(rows, K, mcol, f, numeric, match(RX.umbral, q).caps[1],
                       Num(digitsValue(match(RX.umbral, q).caps[2])))
tablesWith(q, rows, K, mcol, f) == tablesOn(q, rows, K, mcol, f, numericOf(baseRows(rows, f), K, mcol))
\* part_001:252-261
tablesMetric(q, rows, K, nums) ==
    IF nums = <<>> \/ nums[1] = "" THEN noMetric("", rows)
    ELSE tablesWith(q, rows, K, nums[1],
                    filterFast(K, matchI(<<Lit("paralelo"), Sp1, Run1("an")>>, q),
                               matchI(<<Lit("curso"), Sp1, Run1("am")>>, q)))
\* part_001:251-324
askTables(q, rows, columns, K) == tablesMetric(q, rows, K, pickMentionedNumeric(q, columns, rows))

\* part_001:344
ProcessedEnvelope == JEnvelope("Consulta procesada.", <<>>, <<>>)
\* part_001:327-345
askFallback(rows) == Plan("Fallback", TRUE, 200, ProcessedEnvelope, FallbackTimeout, TRUE, TRUE, rows)

\* part_001:176-345  the intents in the order of the handler
routeFast(q, rows, columns, K) ==
    IF matchI(RX.reporte, q).ok THEN askReport(q, rows, K.name)
    ELSE IF matchI(RX.percentil, q).ok THEN askPercentile(q, rows, columns, K)
    ELSE IF matchI(RX.promedio, q).ok \/ matchI(RX.top, q).ok \/ match(RX.umbral, q).ok
    THEN askTables(q, rows, columns, K)
    ELSE askFallback(rows)
\* part_001:171-176
askTrimmed(q, data) ==
    IF q = "" THEN Answer("", 400, JError("missing_q"), data.rows)
    ELSE IF data.rows = <<>>
    THEN Answer("", 200, JEnvelope("No hay datos en decimo.csv.", <<>>, <<>>), data.rows)
    ELSE routeFast(q, data.rows, data.columns, keys(data.columns))
\* part_001:168-345  /api/ask up to its response or its call of askGPT
askFast(q, data) == askTrimmed(trim(q), data)

----------------------------------------------------------------------------
(* The state of the parts a specification leaves alone                     *)

PctIdle == value = NaN /\ arrNums = <<>> /\ pct = [impl |-> "none", out |-> Undefined]
ShapeIdle == raw = "" /\ shaped = NoResponse
NoCall == [fn |-> "none"]
CallIdle == applied = NoCall
SrvIdle == DATA = <<>> /\ TXT = <<>> /\ stamp = <<>> /\ reload = <<>> /\ req = <<>>
AnsIdle == ans = <<>> /\ sampleRow = <<>> /\ ask = <<>>

----------------------------------------------------------------------------
(* AnswerSpec: the /api/answer of src/server.js:557, which loads           *)
(* decimo.csv from storage on every request, and the admin endpoints that  *)
(* change the stored files while requests are in flight                    *)

MaxInFlight == 2    \* requests of a handler in flight at a time

\* a stored file: exists, and its text cut at the line ends
NoFile == [exists |-> FALSE, lines |-> <<>>]
EmptyFile == [exists |-> TRUE, lines |-> <<"">>]
ScenarioFile ==
    [exists |-> TRUE, lines |-> <<"NOMBRE;PARALELO;AUTOESTIMA", "Ana Ruiz;A;80", "Beto Paz;B;30">>]
ClassFile ==
    [exists |-> TRUE,
     lines |-> <<"NOMBRE,CURSO,PARALELO,AUTOESTIMA,PROMEDIO DE INTELIGENCIA EMOCIONAL",
                 "Ana Ruiz,DECIMO,A,80,75", "Beto Paz,DECIMO,B,30,40", "Caro Luna,DECIMO,A,55,60">>]
NoteFile == [exists |-> TRUE, lines |-> <<"Las emociones se regulan.", "Fin.">>]

CsvName == "decimo.csv"
TxtNames == {"emocionales.txt", "evaluacion.txt", "ubicacion.txt"}
FileNames == {CsvName} \cup TxtNames
\* a decimo.csv whose first name does not read as a number (toNum is NaN on a
\* lone dot): the first column of its first row with a finite toNum is AUTOESTIMA
DottedFile == [exists |-> TRUE, lines |-> <<"NOMBRE;AUTOESTIMA", "Ana M. Ruiz;80">>]
CsvFiles == {EmptyFile, ScenarioFile, ClassFile, DottedFile}
Uploads == {<<CsvName, f>> : f \in CsvFiles} \cup {<<"emocionales.txt", NoteFile>>}

\* the questions of the requests (req.query.q)
Questions == {
    "promedio de AUTOESTIMA por PARALELO",
    "percentil de Beto en AUTOESTIMA",
    "percentil de Ana en PROMEDIO DE INTELIGENCIA EMOCIONAL",
    "top 2 promedio de AUTOESTIMA",
    "lista quienes tienen AUTOESTIMA mayor a 50",
    " muestra 1 filas ",
    "Reporte completo de Ana Ruiz",
    "segun emocionales txt",
    "promedio",
    "hola" }

ADMIN_TOKEN == "lexium123"           \* server.js:180
Tokens == {ADMIN_TOKEN, ""}          \* the x-admin-token header of a request

\* raw text of a file: its lines joined by the line end
RECURSIVE join(_, _)
join(xs, sep) ==
    IF xs = <<>> THEN "" ELSE IF Len(xs) = 1 THEN xs[1] ELSE xs[1] \o sep \o join(Tail(xs), sep)
\* server.js:292  readText: "" when the file cannot be read
readText(file) == IF file.exists THEN join(file.lines, "\n") ELSE ""

remove(xs, i) == SubSeq(xs, 1, i - 1) \o SubSeq(xs, i + 1, Len(xs))

\* loadCSV and the rules of /api/answer are functions of the file, the question
\* and __sampleRow: their values on the files and questions of the model,
\* computed once
Loaded == [f \in CsvFiles |-> loadCSV(f)]
FirstRows == {<<>>} \cup {Loaded[f].rows[1] : f \in {g \in CsvFiles : Loaded[g].rows # <<>>}}
Answers ==
    [q \in {trim(x) : x \in Questions}, f \in {g \in CsvFiles : Loaded[g].rows # <<>>}, s \in FirstRows |->
        answerRows(q, Loaded[f].rows, Loaded[f].columns, s)]

AnswerInit ==
    /\ disk \in [FileNames -> {NoFile}]
    /\ sent = NoResponse
    /\ AnsIdle /\ SrvIdle /\ PctIdle /\ ShapeIdle /\ CallIdle

\* server.js:507  POST /api/files/upload behind requireAdmin
UploadFiles ==
    \E token \in Tokens, up \in Uploads :
        /\ disk' = IF token = ADMIN_TOKEN THEN [disk EXCEPT ![up[1]] = up[2]] ELSE disk
        /\ UNCHANGED <<sent, ansVars, srvVars, fnVars>>

\* server.js:519  DELETE /api/files behind requireAdmin; unlink fails on a missing file
DeleteFile ==
    \E token \in Tokens, name \in FileNames :
        /\ disk' = IF token = ADMIN_TOKEN THEN [disk EXCEPT ![name] = NoFile] ELSE disk
        /\ UNCHANGED <<sent, ansVars, srvVars, fnVars>>

\* server.js:557-562  GET /api/answer up to the await of loadCSV's readFile
AnswerReceive ==
    \E q \in Questions :
        /\ Len(ans) < MaxInFlight
        /\ ans' = Append(ans, [pc |-> "loadCSV", q |-> trim(q), file |-> NoFile, fname |-> ""])
        /\ UNCHANGED <<disk, sent, sampleRow, ask, srvVars, fnVars>>

\* the response, with the question and the decimo.csv the request loaded
Answered(r, file, intent, resp) ==
    [kind |-> "answer", q |-> r.q, file |-> file, intent |-> intent, resp |-> resp]

\* the response goes out and the request ends
AnswerRespond(i, file, intent, resp) ==
    /\ sent' = Answered(ans[i], file, intent, resp)
    /\ ans' = remove(ans, i)

\* server.js:570-698  the rule decides: a response, or the await of readText
AnswerRuled(i, file, out) ==
    IF out.intent = "TextLookup"
    THEN /\ ans' = [ans EXCEPT ![i] = [pc |-> "readText", q |-> ans[i].q, file |-> file, fname |-> out.fname]]
         /\ UNCHANGED sent
    ELSE AnswerRespond(i, file, out.intent, out.resp)

\* the variant that would read globalThis.__sampleRow as the last request left it
AnswerLoadedStale(i, file, data) ==
    IF data.rows = <<>>
    THEN /\ AnswerRespond(i, file, "", Envelope("No hay filas en decimo.csv.", <<>>, <<>>))
         /\ UNCHANGED sampleRow
    ELSE /\ sampleRow' = data.rows[1]
         /\ AnswerRuled(i, file, Answers[ans[i].q, file, sampleRow])
\* server.js:562-564  loadCSV returned
AnswerLoaded(i, file, data) ==
    IF data.rows = <<>>
    THEN /\ AnswerRespond(i, file, "", Envelope("No hay filas en decimo.csv.", <<>>, <<>>))
         /\ UNCHANGED sampleRow
    ELSE /\ sampleRow' = data.rows[1]
         /\ AnswerRuled(i, file, Answers[ans[i].q, file, sampleRow'])

\* server.js:260, 699-701  readFile returns or throws
AnswerRead(i, file) ==
    IF ~file.exists
    THEN /\ AnswerRespond(i, file, "", ErrorResponse(500, "Error: ENOENT"))
         /\ UNCHANGED sampleRow
    ELSE AnswerLoaded(i, file, Loaded[file])

\* server.js:260-698  readFile returns or throws, and the handler runs to its
\* response or to the await of readText
AnswerLoadCSV ==
    \E i \in 1..Len(ans) :
        /\ ans[i].pc = "loadCSV"
        /\ AnswerRead(i, disk[CsvName])
        /\ UNCHANGED <<disk, ask, srvVars, fnVars>>

\* server.js:688-690  readText returns and the TextLookup answer is sent
AnswerReadText ==
    \E i \in 1..Len(ans) :
        /\ ans[i].pc = "readText"
        /\ sent' = Answered(ans[i], ans[i].file, "TextLookup",
                            answerText(ans[i].fname, readText(disk[ans[i].fname])))
        /\ ans' = remove(ans, i)
        /\ UNCHANGED <<disk, sampleRow, ask, srvVars, fnVars>>

AnswerNext == UploadFiles \/ DeleteFile \/ AnswerReceive \/ AnswerLoadCSV \/ AnswerReadText

AnswerSpec == AnswerInit /\ [][AnswerNext]_vars

\* a response of /api/answer has been sent
AnswerSent == sent.kind = "answer"
\* the decimo.csv the request loaded was missing, unreadable or without rows
DataError == ~sent.file.exists \/ loadCSV(sent.file).rows = <<>>
EmptyEnvelope(resp) ==
    resp.status = 200 /\ resp.ok /\ resp.general # "" /\ resp.lists = <<>> /\ resp.tables = <<>>

\* C4 as stated: a data error never produces a hard failure: when decimo.csv is
\* missing, unreadable or empty, the request returns a successful envelope
\* (ok:true, an explanatory summary, empty lists and tables), not an error response.
C4_DataErrorIsEnvelope == AnswerSent /\ DataError => EmptyEnvelope(sent.resp)

\* the intent of a question when the rules are tested in the order Report, Sample,
\* Percentile, Average, TopN, Threshold, TextLookup
intentInStatedOrder(nq) ==
    IF isReport(nq) THEN "Report"
    ELSE IF isSample(nq) THEN "Sample"
    ELSE IF isPercentile(nq) THEN "Percentile"
    ELSE IF isAverage(nq) THEN "Average"
    ELSE IF isTopN(nq) THEN "TopN"
    ELSE IF isThreshold(nq) THEN "Threshold"
    ELSE IF isTextLookup(nq) THEN "TextLookup"
    ELSE "Fallback"

\* C7 as stated: the rules are tested in the order Report, Sample, Percentile,
\* Average, TopN, Threshold, TextLookup and the first that matches decides the
\* intent; a question with the Percentile phrase and an Average keyword is Percentile.
C7_StatedPriority ==
    AnswerSent /\ ~DataError => sent.intent = intentInStatedOrder(norm(sent.q))

GroupedAverageQuestion == "promedio de AUTOESTIMA por PARALELO"
\* C8 as stated: on the file with columns NOMBRE, PARALELO, AUTOESTIMA and rows
\* (Ana Ruiz, A, 80), (Beto Paz, B, 30), "promedio de AUTOESTIMA por PARALELO"
\* returns a table whose rows are exactly [A, 80], [B, 30].
C8_GroupedAverage ==
    AnswerSent /\ sent.file = ScenarioFile /\ sent.q = GroupedAverageQuestion =>
        /\ Len(sent.resp.tables) = 1
        /\ sent.resp.tables[1].rows = << <<Str("A"), Num(80)>>, <<Str("B"), Num(30)>> >>

PercentileQuestion == "percentil de Beto en AUTOESTIMA"
\* C10: on the rows (Ana Ruiz, A, 80), (Beto Paz, B, 30), the question
\* "percentil de Beto en AUTOESTIMA" is answered by the Percentile rule, resolves
\* Beto Paz and reports percentile 50 of his value 30.
C10_PercentileOfBeto ==
    AnswerSent /\ sent.file = ScenarioFile /\ sent.q = PercentileQuestion =>
        /\ sent.intent = "Percentile"
        /\ sent.resp.ok
        /\ sent.resp.general = "Percentil de Beto Paz en AUTOESTIMA: 50."
        /\ Len(sent.resp.tables) = 1
        /\ sent.resp.tables[1].rows =
              << <<Str("Beto Paz"), Str("B"), Undefined, Str("AUTOESTIMA"), Num(30), Num(50)>> >>

\* C10 witness: the question was answered on the scenario file, with a table
C10_Witness ==
    /\ AnswerSent /\ sent.file = ScenarioFile /\ sent.q = PercentileQuestion
    /\ sent.resp.tables # <<>>

----------------------------------------------------------------------------
(* PctSpec: percentileOf applied to every value and cohort within bounds   *)

MaxCohort == 3      \* cohorts of up to MaxCohort entries
MaxScore  == 3      \* scores 0..MaxScore

Scores == {Num(n) : n \in 0..MaxScore} \cup {NaN}
Cohorts == UNION {[1..k -> Scores] : k \in 0..MaxCohort}

PctInit ==
    /\ value \in Scores
    /\ arrNums \in Cohorts
    /\ pct = [impl |-> "none", out |-> Undefined]
    /\ disk = <<>> /\ sent = NoResponse /\ SrvIdle /\ AnsIdle /\ ShapeIdle /\ CallIdle

\* server.js:673  percentileOf(val, base.map(...))
CallPercentileOf ==
    /\ pct.impl = "none"
    /\ pct' = [impl |-> "answer", out |-> percentileOf(value, arrNums)]
    /\ UNCHANGED <<value, arrNums, raw, shaped, applied, disk, sent, srvVars, ansVars>>

\* part_001:229  percentileOf(val, cohort)
CallPercentileOfFast ==
    /\ pct.impl = "none"
    /\ pct' = [impl |-> "fast", out |-> percentileOfFast(value, arrNums)]
    /\ UNCHANGED <<value, arrNums, raw, shaped, applied, disk, sent, srvVars, ansVars>>

PctNext == CallPercentileOf \/ CallPercentileOfFast

PctSpec == PctInit /\ [][PctNext]_vars

\* the case of C9: a call was made with a numeric value on a non-empty numeric cohort
NumericCall ==
    /\ pct.impl # "none"
    /\ isFinite(value)
    /\ arrNums # <<>>
    /\ \A i \in 1..Len(arrNums) : isFinite(arrNums[i])

CountLess  == Cardinality({i \in 1..Len(arrNums) : lt(arrNums[i], value)})
CountEqual == Cardinality({i \in 1..Len(arrNums) : arrNums[i] = value})
Clamp(lo, hi, x) == IF x < lo THEN lo ELSE IF x > hi THEN hi ELSE x

HasFinite(nums) == \E i \in 1..Len(nums) : isFinite(nums[i])
\* the function the call of the state applied, on another value and the same cohort
SameCall(v) ==
    IF pct.impl = "answer" THEN percentileOf(v, arrNums) ELSE percentileOfFast(v, arrNums)
\* the larger values of the model
Above(v) == {b \in Scores : isFinite(b) /\ tenths(v) < tenths(b)}

\* C11: percentile is monotonic: on a fixed cohort, for numeric values a < b, the
\* rank of a is at most the rank of b; on a cohort without a finite number neither
\* value has a rank (both results are NaN).
C11_Monotonic ==
    (pct.impl # "none" /\ isFinite(value)) =>
        \A b \in Above(value) :
            IF HasFinite(arrNums)
            THEN /\ isFinite(pct.out) /\ isFinite(SameCall(b))
                 /\ tenths(pct.out) <= tenths(SameCall(b))
            ELSE pct.out = NaN /\ SameCall(b) = NaN

\* C11 witness: a call of the FAST percentileOf whose rank is strictly below the
\* rank of a larger value on the same cohort
C11_Witness ==
    /\ pct.impl = "fast" /\ isFinite(value) /\ HasFinite(arrNums)
    /\ \E b \in Above(value) : tenths(pct.out) < tenths(SameCall(b))

----------------------------------------------------------------------------
(* ShapeSpec: the handlers applied to every text of the model that the     *)
(* text-generation call can return                                         *)

EnvelopeText ==
    "{\"ok\":true,\"general\":\"Listo.\",\"lists\":[],"
        \o "\"tables\":[{\"title\":\"T\",\"columns\":[\"A\"],\"rows\":[[\"x\",1]]}]}"
RefusalText == "{\"ok\":false,\"general\":\"Sin datos.\",\"lists\":[],\"tables\":[]}"
Prefixes == {"", "Claro: ", "Ver {nota} "}
Cores ==
    {EnvelopeText, RefusalText, "{\"general\":\"Listo.\"}", "{}", "[]", "7", "\"hola\"", "null",
     "{mal}", "No tengo datos.", ""}
Suffixes == {"", " ", " Fin."}
Outputs == {p \o c \o s : p \in Prefixes, c \in Cores, s \in Suffixes}

\* a table the FAST server computed before its call, part_001:300
LocalEnvelope ==
    JEnvelope("Promedio de AUTOESTIMA", <<>>,
              <<JTable("Promedio de AUTOESTIMA", <<"Métrica", "Promedio">>,
                       << <<Str("AUTOESTIMA"), Num(55)>> >>)>>)
ShapeInit ==
    /\ raw \in Outputs
    /\ shaped = NoResponse
    /\ disk = <<>> /\ sent = NoResponse /\ SrvIdle /\ AnsIdle /\ PctIdle /\ CallIdle

\* what the handlers of ShapeSpec leave alone
shapeFrame == <<raw, value, arrNums, pct, applied, disk, sent, srvVars, ansVars>>

\* server.js:826-849  /api/ask after callOpenAIJSON
ShapeUniversal ==
    /\ shaped = NoResponse
    /\ shaped' = [kind |-> "universal", resp |-> shapeUniversal(raw)]
    /\ UNCHANGED shapeFrame
\* part_002:254-271  /api/answer after the chat completion
ShapeAnswer ==
    /\ shaped = NoResponse
    /\ shaped' = [kind |-> "answer", resp |-> shapeAnswer(raw)]
    /\ UNCHANGED shapeFrame
\* part_001:321-323  /api/ask after the call of a computed table
ShapeTable ==
    /\ shaped = NoResponse
    /\ shaped' = [kind |-> "table", resp |-> shapeDirect(raw, LocalEnvelope)]
    /\ UNCHANGED shapeFrame
\* part_001:342-344  /api/ask after the call of the fallback
ShapeFallback ==
    /\ shaped = NoResponse
    /\ shaped' = [kind |-> "fallback", resp |-> shapeBlock(raw, ProcessedEnvelope)]
    /\ UNCHANGED shapeFrame

ShapeNext == ShapeUniversal \/ ShapeAnswer \/ ShapeTable \/ ShapeFallback

ShapeSpec == ShapeInit /\ [][ShapeNext]_vars

\* an envelope { ok, general, lists, tables } with fields of the right kinds
WellFormed(body) ==
    /\ body.t = "object"
    /\ jget(body, "ok").t \in {"true", "false"}
    /\ jget(body, "general").t = "string"
    /\ isArray(jget(body, "lists"))
    /\ isArray(jget(body, "tables"))
\* an envelope whose summary carries the text
Carries(body, text) == WellFormed(body) /\ includes(jget(body, "general").s, trim(text))
DirectlyParsed == JSONparse(raw)
BlockParsed == IF DirectlyParsed.ok THEN JFail ELSE blockTried(trailingBlock(raw))

\* C5 as stated: for every text the collaborator returns, the response is a
\* well-formed envelope: the directly parsed object if the text parses, otherwise
\* the trailing {...} block if that parses, otherwise an envelope whose summary
\* carries the raw text; never an error response, and the raw text is never discarded.
C5_DefensiveParse ==
    shaped # NoResponse =>
        /\ shaped.resp.status = 200
        /\ WellFormed(shaped.resp.body)
        /\ DirectlyParsed.ok /\ WellFormed(DirectlyParsed.v) => shaped.resp.body = DirectlyParsed.v
        /\ BlockParsed.ok /\ WellFormed(BlockParsed.v) => shaped.resp.body = BlockParsed.v
        /\ ~DirectlyParsed.ok /\ ~BlockParsed.ok => Carries(shaped.resp.body, raw)

----------------------------------------------------------------------------
(* Spec: the FAST server of src/unnamed/part_001.  DATA and TXT are loaded *)
(* at start and by /api/reload; /api/ask reads them, computes its answer   *)
(* and has it worded by askGPT under withTimeout.  The files of the        *)
(* storage directory change outside the server.                            *)

MaxReloads == 1     \* calls of /api/reload
MaxAsking == 1      \* calls of askGPT in flight

TxtFields == <<"emocionales", "evaluacion", "ubicacion">>
StartDisks ==
    {[n \in FileNames |-> IF n = CsvName THEN c ELSE IF n = "emocionales.txt" THEN e ELSE NoFile] :
        c \in {ScenarioFile, ClassFile}, e \in {NoFile, NoteFile}}
\* what the storage directory can be given: a decimo.csv, or none, and a text
StorageWrites ==
    {<<CsvName, f>> : f \in {ScenarioFile, ClassFile, NoFile}}
        \cup {<<"emocionales.txt", f>> : f \in {NoteFile, NoFile}}

\* the questions of the requests (req.query.q)
FastQuestions == {
    "Reporte completo de Ana Ruiz",
    "reporte completo de Zoe",
    "percentil de Beto en AUTOESTIMA",
    "promedio de AUTOESTIMA por paralelo",
    "top 2 menor AUTOESTIMA",
    "AUTOESTIMA >= 50",
    "hola",
    "" }
\* the texts askGPT resolves with, and the message of the error it throws
FastOutputs == {EnvelopeText, "No tengo datos."}
FailureText == "Rate limit reached"

\* loadCSV and the synchronous part of /api/ask are functions of the file, and of
\* the question and DATA: their values on the files and questions of the model,
\* computed once
LoadedFast == [f \in {ScenarioFile, ClassFile} |-> loadCSVFast(f)]
Plans == [q \in FastQuestions, d \in {LoadedFast[f] : f \in DOMAIN LoadedFast} |-> askFast(q, d)]
planOf(q, d) == IF <<q, d>> \in DOMAIN Plans THEN Plans[q, d] ELSE askFast(q, d)

\* part_001:82-96  the state when the server starts to listen: preloadAll has run
Init ==
    /\ disk \in StartDisks
    /\ DATA = LoadedFast[disk[CsvName]]
    /\ TXT = [t \in Range(TxtFields) |-> readText(disk[t \o ".txt"])]
    /\ stamp = [DATA |-> 0, emocionales |-> 0, evaluacion |-> 0, ubicacion |-> 0, calls |-> 0]
    /\ reload = <<>>
    /\ req = <<>>
    /\ sent = NoResponse
    /\ AnsIdle /\ PctIdle /\ ShapeIdle /\ CallIdle

\* part_001:24  a file of STORAGE_DIR is written or removed
StorageWrite ==
    \E w \in StorageWrites :
        /\ disk' = [disk EXCEPT ![w[1]] = w[2]]
        /\ UNCHANGED <<DATA, TXT, stamp, reload, req, sent, ansVars, fnVars>>

\* part_001:98-99, 85-86  POST /api/reload up to the await of loadCSV's readFile;
\* pc counts the awaits of preloadAll that have returned
ReloadReceive ==
    /\ stamp.calls < MaxReloads
    /\ reload' = Append(reload, [id |-> stamp.calls + 1, pc |-> 0])
    /\ stamp' = [stamp EXCEPT !.calls = @ + 1]
    /\ UNCHANGED <<disk, DATA, TXT, req, sent, ansVars, fnVars>>

\* the response of /api/reload to the request id
Reloaded(id, resp) == [kind |-> "reload", id |-> id, resp |-> resp]
\* part_001:99  res.json({ ok:true, rows, cols })
ReloadOk(data) ==
    Response(200, JObj(<<"ok", "rows", "cols">>,
                       <<JBool(TRUE), JNum(Len(data.rows), 0), JNum(Len(data.columns), 0)>>))
\* part_001:100  res.status(500).json({ ok:false, error })
ReloadFailed == Response(500, JError("ENOENT: no such file or directory"))

\* the variant whose failed load would leave DATA empty
ReloadCSVClearing ==
    \E i \in 1..Len(reload) :
        /\ reload[i].pc = 0
        /\ IF disk[CsvName].exists
           THEN /\ DATA' = LoadedFast[disk[CsvName]]
                /\ stamp' = [stamp EXCEPT !.DATA = reload[i].id]
                /\ reload' = [reload EXCEPT ![i].pc = 1]
                /\ UNCHANGED sent
           ELSE /\ reload' = remove(reload, i)
                /\ sent' = Reloaded(reload[i].id, ReloadFailed)
                /\ DATA' = [columns |-> <<>>, rows |-> <<>>]
                /\ UNCHANGED stamp
        /\ UNCHANGED <<disk, TXT, req, ansVars, fnVars>>

\* part_001:86-88, 100  readFile returns and DATA is assigned, up to the await of
\* the first readText; or readFile throws and /api/reload answers 500
ReloadCSV ==
    \E i \in 1..Len(reload) :
        /\ reload[i].pc = 0
        /\ IF disk[CsvName].exists
           THEN /\ DATA' = LoadedFast[disk[CsvName]]
                /\ stamp' = [stamp EXCEPT !.DATA = reload[i].id]
                /\ reload' = [reload EXCEPT ![i].pc = 1]
                /\ UNCHANGED sent
           ELSE /\ reload' = remove(reload, i)
                /\ sent' = Reloaded(reload[i].id, ReloadFailed)
                /\ UNCHANGED <<DATA, stamp>>
        /\ UNCHANGED <<disk, TXT, req, ansVars, fnVars>>

\* part_001:88-90, 99  a readText returns and its field of TXT is assigned, up to
\* the next await; after the last, /api/reload answers
ReloadText ==
    \E i \in 1..Len(reload) :
        /\ reload[i].pc \in 1..Len(TxtFields)
        /\ TXT' = [TXT EXCEPT ![TxtFields[reload[i].pc]] = readText(disk[TxtFields[reload[i].pc] \o ".txt"])]
        /\ stamp' = [stamp EXCEPT ![TxtFields[reload[i].pc]] = reload[i].id]
        /\ IF reload[i].pc < Len(TxtFields)
           THEN reload' = [reload EXCEPT ![i].pc = @ + 1] /\ UNCHANGED sent
           ELSE reload' = remove(reload, i) /\ sent' = Reloaded(reload[i].id, ReloadOk(DATA))
        /\ UNCHANGED <<disk, DATA, req, ansVars, fnVars>>

\* the loads whose values the handler read: of DATA, and of the fields of TXT
seenBy(q, plan) ==
    (IF q = "" THEN <<>> ELSE <<stamp.DATA>>)
        \o (IF plan.txt THEN <<stamp.emocionales, stamp.evaluacion, stamp.ubicacion>> ELSE <<>>)
\* the response, with the question, the intent, the envelope computed before the
\* call, how the call ended and the loads the handler read
Asked(r, call, resp) ==
    [kind |-> "ask", q |-> r.q, intent |-> r.intent, local |-> r.local, seen |-> r.seen,
     call |-> call, resp |-> resp]
Asking(q, plan, seen) ==
    [q |-> q, intent |-> plan.intent, local |-> plan.body, seen |-> seen,
     ms |-> plan.ms, block |-> plan.block, late |-> FALSE]
\* part_001:168-342  the handler runs to its response or to its call
FastPlanned(q, plan) ==
    /\ DATA' = [DATA EXCEPT !.rows = plan.rows]
    /\ IF plan.awaits
       THEN /\ req' = Append(req, Asking(q, plan, seenBy(q, plan)))
            /\ UNCHANGED sent
       ELSE /\ sent' = Asked(Asking(q, plan, seenBy(q, plan)), "none", Response(plan.status, plan.body))
            /\ UNCHANGED req

\* part_001:168-342  GET /api/ask up to its response or to the await of askGPT
FastReceive ==
    \E q \in FastQuestions :
        /\ Len(req) < MaxAsking
        /\ FastPlanned(trim(q), planOf(q, DATA))
        /\ UNCHANGED <<disk, TXT, stamp, reload, ansVars, fnVars>>

\* part_001:157, 193-194, 215-216, 241-242, 322-323, 343-344  askGPT resolves
\* before the timer and the handler answers with what it makes of the text
FastReply ==
    \E i \in 1..Len(req), text \in FastOutputs :
        /\ ~req[i].late
        /\ sent' = Asked(req[i], "reply",
                         IF req[i].block THEN shapeBlock(text, req[i].local)
                         ELSE shapeDirect(text, req[i].local))
        /\ req' = remove(req, i)
        /\ UNCHANGED <<disk, DATA, TXT, stamp, reload, ansVars, fnVars>>

\* part_001:156, 347-349  the timer of withTimeout fires first: the promise rejects
\* with Error("timeout") and the catch of the handler answers; the call is still
\* to settle
FastTimeout ==
    \E i \in 1..Len(req) :
        /\ ~req[i].late
        /\ sent' = Asked(req[i], "timeout", Response(500, JError("timeout")))
        /\ req' = [req EXCEPT ![i].late = TRUE]
        /\ UNCHANGED <<disk, DATA, TXT, stamp, reload, ansVars, fnVars>>

\* the variant in which the handler would go on with the text of a call that
\* settles after the timer
FastLateAnswering ==
    \E i \in 1..Len(req), text \in FastOutputs :
        /\ req[i].late
        /\ sent' = Asked(req[i], "reply",
                         IF req[i].block THEN shapeBlock(text, req[i].local)
                         ELSE shapeDirect(text, req[i].local))
        /\ req' = remove(req, i)
        /\ UNCHANGED <<disk, DATA, TXT, stamp, reload, ansVars, fnVars>>

\* part_001:157-158  askGPT settles after the timer has fired: clearTimeout of a
\* timer that has run, and resolve or reject of a promise that is settled, do
\* nothing, and no code of the handler runs
FastLate ==
    \E i \in 1..Len(req) :
        /\ req[i].late
        /\ req' = remove(req, i)
        /\ UNCHANGED <<disk, DATA, TXT, stamp, reload, sent, ansVars, fnVars>>

\* part_001:150, 158, 347-349  askGPT throws before the timer and the catch of the
\* handler answers
FastFail ==
    \E i \in 1..Len(req) :
        /\ ~req[i].late
        /\ sent' = Asked(req[i], "failure", Response(500, JError(FailureText)))
        /\ req' = remove(req, i)
        /\ UNCHANGED <<disk, DATA, TXT, stamp, reload, ansVars, fnVars>>

Next ==
    \/ StorageWrite \/ ReloadReceive \/ ReloadCSV \/ ReloadText
    \/ FastReceive \/ FastReply \/ FastTimeout \/ FastFail \/ FastLate

Spec == Init /\ [][Next]_vars

\* C1 as stated: the Dataset and the three documents that a request reads all come
\* from the same load, in every interleaving of a reload with question requests.
C1_ReadsOneLoad ==
    (sent # NoResponse /\ sent.kind = "ask") =>
        \A i, j \in 1..Len(sent.seen) : sent.seen[i] = sent.seen[j]

\* C2 as stated: when the call made for an Average, TopN, Threshold or Percentile
\* question exceeds its timeout or fails, the request answers 200 with the envelope
\* the server computed locally, not with an error.
C2_TimeoutAnswersLocalTable ==
    (/\ sent # NoResponse
     /\ sent.kind = "ask"
     /\ sent.call \in {"timeout", "failure"}
     /\ sent.intent \in {"Average", "TopN", "Threshold", "Percentile"}) =>
        sent.resp = Response(200, sent.local)

\* C6: a question request never mutates the loaded Dataset or the documents: every
\* step of a question request (its start, and the response to it) leaves DATA, with
\* its columns, rows and cells in order, and TXT as they were.
C6_RequestsKeepData ==
    [][(req' # req \/ (sent' # sent /\ sent'.kind = "ask")) => (DATA' = DATA /\ TXT' = TXT)]_vars

\* C6 witness: with no reload since the start, a request for the two lowest
\* AUTOESTIMA awaits its wording with a table sorted into another order than the
\* rows of DATA: Beto Paz first in the table, Ana Ruiz first in DATA.
C6_Witness ==
    /\ stamp.calls = 0
    /\ Len(req) = 1 /\ ~req[1].late
    /\ req[1].intent = "TopN"
    /\ jget(jget(req[1].local, "tables").items[1], "rows").items[1].items[1] = JStr("Beto Paz")
    /\ get(DATA.rows[1], "NOMBRE") = Str("Ana Ruiz")
    /\ get(DATA.rows[2], "NOMBRE") = Str("Beto Paz")

----------------------------------------------------------------------------
(* FairSpec: the universal GET /api/ask of server.js:752-854.  A request   *)
(* loads decimo.csv and the three texts from the disk, then awaits          *)
(* callOpenAIJSON.  The reads of the disk return; nothing obliges the       *)
(* collaborator to reply, a client to ask or an administrator to upload.    *)

Slots == 1..MaxInFlight
AskIdle == [pc |-> "idle", q |-> ""]
AskAwaits == <<"loadCSV", "emocionales", "evaluacion", "ubicacion", "callOpenAIJSON">>
AskQuestions == {"", " notas de Ana Ruiz ", "promedio de AUTOESTIMA por paralelo"}
\* what callOpenAIJSON returns (server.js:749), and the error it throws (746)
AskOutputs == {EnvelopeText, "No tengo datos."}
AskFailure == "Error: OpenAI error 500: Internal Server Error"

FairInit ==
    /\ disk \in [FileNames -> {NoFile}]
    /\ ask = [i \in Slots |-> AskIdle]
    /\ sent = NoResponse
    /\ ans = <<>> /\ sampleRow = <<>>
    /\ SrvIdle /\ PctIdle /\ ShapeIdle /\ CallIdle

\* the response, with the question and how the call of the collaborator ended
Asks(q, call, resp) == [kind |-> "universal", q |-> q, call |-> call, resp |-> resp]

\* server.js:752-757  GET /api/ask up to the await of loadCSV's readFile, or to the
\* 400 of a question that trims to nothing
AskReceive ==
    \E i \in Slots, q \in AskQuestions :
        /\ ask[i].pc = "idle"
        /\ IF trim(q) = ""
           THEN /\ sent' = Asks("", "none", Response(400, JError("missing_q")))
                /\ UNCHANGED ask
           ELSE /\ ask' = [ask EXCEPT ![i] = [pc |-> "loadCSV", q |-> trim(q)]]
                /\ UNCHANGED sent
        /\ UNCHANGED <<disk, ans, sampleRow, srvVars, fnVars>>

\* server.js:260, 757-761, 851-853  readFile returns or throws: the 500 of the
\* catch, the envelope of a file without rows, or the await of the first readText
AskLoadCSVAt(i) ==
    /\ ask[i].pc = "loadCSV"
    /\ IF ~disk[CsvName].exists
       THEN /\ sent' = Asks(ask[i].q, "none", Response(500, JError("Error: ENOENT")))
            /\ ask' = [ask EXCEPT ![i] = AskIdle]
       ELSE IF Loaded[disk[CsvName]].rows = <<>>
       THEN /\ sent' = Asks(ask[i].q, "none",
                            Response(200, JEnvelope("No hay datos en decimo.csv.", <<>>, <<>>)))
            /\ ask' = [ask EXCEPT ![i] = AskIdle]
       ELSE /\ ask' = [ask EXCEPT ![i].pc = "emocionales"]
            /\ UNCHANGED sent
    /\ UNCHANGED <<disk, ans, sampleRow, srvVars, fnVars>>
AskLoadCSV == \E i \in Slots : AskLoadCSVAt(i)

\* server.js:761-763, 826  a readText returns (a missing file reads as ""), up to
\* the next await: the next readText, or callOpenAIJSON
AskReadTextAt(i) ==
    /\ \E k \in 2..4 :
        /\ ask[i].pc = AskAwaits[k]
        /\ ask' = [ask EXCEPT ![i].pc = AskAwaits[k + 1]]
    /\ UNCHANGED <<disk, sent, ans, sampleRow, srvVars, fnVars>>
AskReadText == \E i \in Slots : AskReadTextAt(i)

\* server.js:749, 826-849  callOpenAIJSON returns and the shaped answer is sent
AskReply ==
    \E i \in Slots, text \in AskOutputs :
        /\ ask[i].pc = "callOpenAIJSON"
        /\ sent' = Asks(ask[i].q, "reply", shapeUniversal(text))
        /\ ask' = [ask EXCEPT ![i] = AskIdle]
        /\ UNCHANGED <<disk, ans, sampleRow, srvVars, fnVars>>

\* server.js:744-747, 851-853  callOpenAIJSON throws and the catch answers 500
AskFail ==
    \E i \in Slots :
        /\ ask[i].pc = "callOpenAIJSON"
        /\ sent' = Asks(ask[i].q, "failure", Response(500, JError(AskFailure)))
        /\ ask' = [ask EXCEPT ![i] = AskIdle]
        /\ UNCHANGED <<disk, ans, sampleRow, srvVars, fnVars>>

FairNext ==
    \/ UploadFiles \/ DeleteFile
    \/ AskReceive \/ AskLoadCSV \/ AskReadText \/ AskReply \/ AskFail

\* the awaits of the file system return: fs.readFile resolves or rejects
FairSpec ==
    /\ FairInit /\ [][FairNext]_vars
    /\ \A i \in Slots : WF_vars(AskLoadCSVAt(i)) /\ WF_vars(AskReadTextAt(i))

\* C3 as stated: every question request eventually receives a response, even if the
\* text-generation collaborator never replies; no request is left pending forever.
C3_EventuallyAnswered ==
    \A i \in Slots : (ask[i].pc # "idle") ~> (ask[i].pc = "idle")


----------------------------------------------------------------------------
(* RuleSpec: the functions of the rules applied to every question and file *)
(* of the model.  What /api/answer does between loadCSV and its response,  *)
(* and what its helpers return, depends on the question and the rows only. *)

\* a decimo.csv with an empty and a non-numeric AUTOESTIMA cell
GapFile ==
    [exists |-> TRUE,
     lines |-> <<"NOMBRE;PARALELO;AUTOESTIMA", "Beto Paz;B;", "Caro Luna;A;n/a">>]
\* a decimo.csv of many names: loadCSV leaves a name column as text when fewer than
\* three of its first cells read as numbers, and a name with a dot does not
NamesFile ==
    [exists |-> TRUE,
     lines |-> <<"NOMBRE;AUTOESTIMA",
                 "Ana M. Ruiz;80", "Ana Ruiz;30", "Ana B. Paz;55", "Ana C. Paz;55", "Ana D. Luna;",
                 "Ana E. Mora;70", "Ana F. Vera;10", "Ana G. Soto;20", "Ana H. Lara;90",
                 "Ana I. Cruz;40", "Ana J. Rey;60", "Ana K. Gil;50", "Carla Nuñez;65">>]
\* a decimo.csv whose PARALELO cells differ from 'A' in case, in a mark, in
\* length and in punctuation; two of them only read as numbers, so loadCSV leaves
\* the column as text
CohortFile ==
    [exists |-> TRUE,
     lines |-> <<"NOMBRE;AUTOESTIMA;PARALELO",
                 "Ana M. Ruiz;80;á", "Beto J. Paz;30;AB", "Caro L. Luna;55;A.">>]
\* a decimo.csv of two courses; with two rows loadCSV leaves every column as text
CourseFile ==
    [exists |-> TRUE,
     lines |-> <<"NOMBRE;CURSO;PARALELO;AUTOESTIMA", "Ana Ruiz;DECIMO;A;80", "Beto Paz;NOVENO;B;30">>]
RuleFiles == {ScenarioFile, ClassFile, GapFile, NamesFile, CohortFile, CourseFile}

PercentileTexts == {
    "percentil de Ana en AUTOESTIMA",
    "percentil de Beto en AUTOESTIMA",
    "percentil de Caro en AUTOESTIMA",
    "percentil de Zoe en AUTOESTIMA" }
\* names asked for
NameTexts == {"Ana Ruiz", "ana", "Ana Zeta", "Ruiz Ana M", "Paz Ana", "Carla", "Zoe", "??", ""}
ReportTexts == {
    "Reporte completo de Ana Ruiz",
    "reporte completo de Ana Zeta",
    "reporte completo de Carla",
    "reporte completo de Carla Zeta",
    "reporte completo de Zoe" }
\* Top/Bottom questions, each with the k and the order it asks for
TopAsked == {
    [q |-> "top 3 AUTOESTIMA",          k |-> 3,  order |-> "desc"],
    [q |-> "top 20 AUTOESTIMA",         k |-> 20, order |-> "desc"],
    [q |-> "top 3 AUTOESTIMA mas baja", k |-> 3,  order |-> "asc"],
    [q |-> "top 20 AUTOESTIMA menor",   k |-> 20, order |-> "asc"] }
TopTexts == {t.q : t \in TopAsked}
\* more Top/Bottom questions: N beyond the range, N absent, a lowest qualifier
\* with an accent, a lowest qualifier next to a highest one
TopClassified == TopAsked \cup {
    [q |-> "top 99 AUTOESTIMA peores",                  k |-> 50, order |-> "asc"],
    [q |-> "top 0 AUTOESTIMA",                          k |-> 1,  order |-> "desc"],
    [q |-> "top AUTOESTIMA",                            k |-> 5,  order |-> "desc"],
    [q |-> "Top 2 AUTOESTIMA más baja",                 k |-> 2,  order |-> "asc"],
    [q |-> "top 2 AUTOESTIMA mas alta",                 k |-> 2,  order |-> "desc"],
    [q |-> "top 2 AUTOESTIMA mas baja de los mejores",  k |-> 2,  order |-> "asc"] }
\* Threshold questions, each with the comparator and the literal it asks for
ThresholdAsked == {
    [q |-> "quienes tienen AUTOESTIMA mayor a 55",         op |-> ">",  val |-> 55],
    [q |-> "lista AUTOESTIMA menor a 55",                  op |-> "<",  val |-> 55],
    [q |-> "quienes tienen AUTOESTIMA mayor o igual a 55", op |-> ">=", val |-> 55],
    [q |-> "quienes tienen AUTOESTIMA menor o igual a 55", op |-> "<=", val |-> 55] }
\* questions with a comparator followed by a number: the verbal ones above, the
\* symbols, and a verbal one without a word that asks for a list
ComparatorAsked == ThresholdAsked \cup {
    [q |-> "quienes tienen AUTOESTIMA > 70",  op |-> ">",  val |-> 70],
    [q |-> "quienes tienen AUTOESTIMA <= 55", op |-> "<=", val |-> 55],
    [q |-> "AUTOESTIMA mayor a 55",           op |-> ">",  val |-> 55] }
\* Average questions without a group: of all rows, and of a course no row is in
AverageTexts == {"promedio de AUTOESTIMA", "media de AUTOESTIMA curso NOVENO"}
\* Average questions that name no column: without and with a synonym of a
\* well-known measure
MeasureTexts == {"promedio", "media ie global"}
\* server.js:696  the first example of the Fallback answer, with a measure of the
\* files of the model
AdvertisedQuestion == "promedio de AUTOESTIMA por PARALELO (en curso DECIMO)"
\* Top questions that list a whole cohort, each with the Filter it asks for
FilterAsked == {
    [q |-> "top 20 AUTOESTIMA",            f |-> <<>>],
    [q |-> "top 20 AUTOESTIMA paralelo A", f |-> <<[k |-> "PARALELO", v |-> "A"]>>],
    [q |-> "top 20 AUTOESTIMA paralelo Z", f |-> <<[k |-> "PARALELO", v |-> "Z"]>>] }
RuleTexts ==
    PercentileTexts \cup NameTexts \cup ReportTexts \cup {t.q : t \in TopClassified}
    \cup {t.q : t \in ComparatorAsked} \cup AverageTexts \cup {t.q : t \in FilterAsked}
    \cup MeasureTexts \cup {AdvertisedQuestion}

RuleLoaded == [f \in RuleFiles |-> loadCSV(f)]

RuleInit ==
    /\ applied \in {[fn |-> "none", q |-> q, file |-> f] : q \in RuleTexts, f \in RuleFiles}
    /\ disk = <<>> /\ sent = NoResponse
    /\ SrvIdle /\ AnsIdle /\ PctIdle /\ ShapeIdle

ruleFrame == <<disk, sent, srvVars, ansVars, value, arrNums, pct, raw, shaped>>
Applied(fn, out) == [fn |-> fn, q |-> applied.q, file |-> applied.file, out |-> out]

\* server.js:560-698  the rules of /api/answer on the rows loadCSV returned, with
\* __sampleRow = rows[0]
ApplyAnswerRows ==
    /\ applied.fn = "none"
    /\ applied' = Applied("answerRows",
                      answerRows(trim(applied.q), RuleLoaded[applied.file].rows, RuleLoaded[applied.file].columns,
                                 RuleLoaded[applied.file].rows[1]))
    /\ UNCHANGED ruleFrame

\* server.js:300-319  findBestStudent(rows, query) on the rows loadCSV returned,
\* the query one of the names asked for
ApplyFindBestStudent ==
    /\ applied.fn = "none"
    /\ applied.q \in NameTexts
    /\ applied' = Applied("findBestStudent", findBestStudent(RuleLoaded[applied.file].rows, applied.q))
    /\ UNCHANGED ruleFrame

RuleNext == ApplyAnswerRows \/ ApplyFindBestStudent

RuleSpec == RuleInit /\ [][RuleNext]_vars

\* the cell of a row of the file as it stands in the text, before loadCSV casts it
rawCell(file, name, col) ==
    LET d == loadCSVFast(file)
        hit == {i \in 1..Len(d.rows) : get(d.rows[i], "NOMBRE") = Str(name)}
    IN IF hit = {} THEN Undefined ELSE get(d.rows[CHOOSE i \in hit : TRUE], col)
\* the answer gives no percentile: no table, or the placeholder in the table
\* and in the summary
NoPercentile(resp, name) ==
    \/ resp.tables = <<>>
    \/ /\ resp.tables[1].rows[1][6] = Str(Dash)
       /\ resp.general = "Percentil de " \o name \o " en AUTOESTIMA: " \o Dash \o "."

\* the cell is empty or no numeral
NoValue(cell) == trim(String(cell)) = "" \/ ~isFinite(Number(String(cell)))
Named == {<<"Ana", "Ana Ruiz">>, <<"Beto", "Beto Paz">>, <<"Caro", "Caro Luna">>}

\* C12 as stated: a Percentile question never reports a numeric percentile for an
\* entity that is unresolved or whose measure cell is empty or non-numeric: the
\* result carries the placeholder instead of a number.
C12_NoRankWithoutValue ==
    (applied.fn = "answerRows" /\ applied.q \in PercentileTexts) =>
        /\ (applied.q = "percentil de Zoe en AUTOESTIMA") => NoPercentile(applied.out.resp, "")
        /\ \A who \in Named :
              (applied.q = "percentil de " \o who[1] \o " en AUTOESTIMA"
                  /\ NoValue(rawCell(applied.file, who[2], "AUTOESTIMA")))
              => NoPercentile(applied.out.resp, who[2])


\* the call of findBestStudent of the state: its rows, the tokens of its query, and
\* the score and the length of the normalized name of row i
FindCall == applied.fn = "findBestStudent"
FindRows == RuleLoaded[applied.file].rows
FindName(i) == normCell(get(FindRows[i], "NOMBRE"))
QueryTokens == tokenizeName(applied.q)
Score(i) == Cardinality({j \in 1..Len(QueryTokens) : QueryTokens[j] \in Range(words(FindName(i)))})
NoExactName == \A i \in 1..Len(FindRows) : FindName(i) # norm(applied.q)
\* row i ranks before row j: more hits, then the shorter normalized name, then the
\* earlier row
Before(i, j) ==
    \/ Score(i) > Score(j)
    \/ Score(i) = Score(j) /\ Len(FindName(i)) < Len(FindName(j))
    \/ Score(i) = Score(j) /\ Len(FindName(i)) = Len(FindName(j)) /\ i < j
Candidates == {i \in 1..Len(FindRows) : Score(i) > 0}
TopScore == IF FindRows = <<>> THEN 0 ELSE Score(CHOOSE i \in 1..Len(FindRows) : \A j \in 1..Len(FindRows) : Score(i) >= Score(j))
Needed == IF Len(QueryTokens) < 2 THEN Len(QueryTokens) ELSE 2
\* the candidates in rank order, as row numbers
Ranked ==
    [k \in 1..Cardinality(Candidates) |->
        CHOOSE i \in Candidates : Cardinality({j \in Candidates : Before(j, i)}) = k - 1]

\* C13 as stated: when no name equals the query, findBestStudent returns a match if
\* and only if the highest score is at least min(number of query tokens, 2).
C13_AcceptedIffScore ==
    (FindCall /\ NoExactName /\ FindRows # <<>>) => (applied.out.found <=> TopScore >= Needed)

\* C13 amended: when no name equals the query, findBestStudent returns a match if
\* and only if some name holds a token of the query and the highest score is at
\* least min(number of query tokens, 2); the match is the candidate with the
\* highest score, the shorter normalized name among equal scores, the earlier row
\* among equal lengths.  A query without tokens matches nothing.
C13_AcceptedIffScored ==
    (FindCall /\ NoExactName) =>
        /\ applied.out.found <=> (Candidates # {} /\ TopScore >= Needed)
        /\ applied.out.found => applied.out.student = FindRows[Ranked[1]]

\* C13 witness: a two-token query accepted on two hits; its match is the earlier of
\* two candidates of equal score and equal length
C13_Witness ==
    /\ FindCall /\ NoExactName /\ applied.file = NamesFile
    /\ applied.q = "Paz Ana" /\ applied.out.found /\ TopScore = 2
    /\ get(applied.out.student, "NOMBRE") = Str("Ana B. Paz")
    /\ Score(4) = 2 /\ Len(FindName(4)) = Len(FindName(3))


\* the names of the candidates of rank from..to, as far as there are candidates
RankedNames(from, to) ==
    [k \in 1..(IF Cardinality(Candidates) < to THEN Cardinality(Candidates) - from + 1 ELSE to - from + 1) |->
        get(FindRows[Ranked[from + k - 1]], "NOMBRE")]

\* C14: the suggestions of findBestStudent: none on an exact match; on no match at
\* most 10 names, all of score > 0, in rank order; on an accepted match at most 5
\* names, the runner-ups in rank order, none of them the matched row.
C14_Suggestions ==
    FindCall =>
        IF ~NoExactName THEN applied.out.suggestions = <<>>
        ELSE IF ~applied.out.found THEN applied.out.suggestions = RankedNames(1, 10)
        ELSE /\ applied.out.suggestions = RankedNames(2, 6)
             /\ applied.out.student = FindRows[Ranked[1]]

\* C14 witness: a match among twelve candidates, with five suggestions
C14_Witness ==
    /\ FindCall /\ NoExactName /\ applied.out.found
    /\ Cardinality(Candidates) = 12
    /\ Len(applied.out.suggestions) = 5


\* the call of the rules of the state, and its Report for an entity that
\* findBestStudent does not resolve
RulesCall == applied.fn = "answerRows"
ReportMiss ==
    /\ RulesCall /\ applied.out.intent = "Report"
    /\ ~findBestStudent(RuleLoaded[applied.file].rows, personOf(trim(applied.q))).found
BeginsWith(s, p) == Len(s) >= Len(p) /\ SubSeq(s, 1, Len(p)) = p
NotFoundSummary(resp) == BeginsWith(resp.general, "No encontré")
SuggestedNames(resp) == IF resp.lists = <<>> THEN <<>> ELSE resp.lists[1].items

\* C15 as stated: a Report for an unresolved entity returns a 'not found' envelope
\* (ok:true, no tables) whose suggestion list never holds more than 5 names.
C15_AtMostFiveSuggested ==
    ReportMiss =>
        /\ applied.out.resp.ok /\ applied.out.resp.tables = <<>>
        /\ NotFoundSummary(applied.out.resp)
        /\ Len(SuggestedNames(applied.out.resp)) <= 5

CarlaCall(q) == RulesCall /\ applied.file = NamesFile /\ applied.q = q
\* C16 as stated: 'reporte completo de Carla' on a dataset whose only name with
\* 'Carla' is 'Carla Nuñez' is answered ok:true with a 'not found' summary and a
\* suggestions list containing 'Carla Nuñez'.
C16_CarlaNotFound ==
    CarlaCall("reporte completo de Carla") =>
        /\ applied.out.resp.ok
        /\ NotFoundSummary(applied.out.resp)
        /\ Str("Carla Nuñez") \in Range(SuggestedNames(applied.out.resp))

\* C16 amended: 'reporte completo de Carla' on that dataset is a one-token query
\* accepted on its one hit: the answer is the report of Carla Nuñez, ok:true with
\* tables and no suggestions.  The 'not found' envelope that suggests 'Carla Nuñez'
\* answers a query of two tokens with one hit, 'reporte completo de Carla Zeta'.
C16_CarlaReported ==
    /\ CarlaCall("reporte completo de Carla") =>
          /\ applied.out.intent = "Report" /\ applied.out.resp.ok
          /\ BeginsWith(applied.out.resp.general, "Informe socioemocional de Carla Nuñez ")
          /\ applied.out.resp.tables # <<>>
          /\ Str("Carla Nuñez") \notin Range(SuggestedNames(applied.out.resp))
    /\ CarlaCall("reporte completo de Carla Zeta") =>
          /\ applied.out.intent = "Report" /\ applied.out.resp.ok
          /\ applied.out.resp.general = "No encontré a 'Carla Zeta' en decimo.csv."
          /\ applied.out.resp.tables = <<>>
          /\ SuggestedNames(applied.out.resp) = <<Str("Carla Nuñez")>>

\* C16 witness: the question was answered on the file of names, where one name
\* only holds 'Carla', with the table of her AUTOESTIMA
C16_Witness ==
    /\ CarlaCall("reporte completo de Carla")
    /\ Cardinality({i \in 1..Len(RuleLoaded[NamesFile].rows) :
                       includes(normCell(get(RuleLoaded[NamesFile].rows[i], "NOMBRE")), "carla")}) = 1
    /\ applied.out.resp.tables[1].rows[1][2] = Num(65)



\* the Top/Bottom call of the state, what it asked for, and the rows of its file as
\* they stand in the text: row i has a measure when its AUTOESTIMA cell is a numeral
TopCall == applied.fn = "answerRows" /\ applied.q \in TopTexts
TopWanted == CHOOSE t \in TopAsked : t.q = applied.q
TextRows == loadCSVFast(applied.file).rows
TextMeasure(i) == get(TextRows[i], "AUTOESTIMA")
WithMeasure == {i \in 1..Len(TextRows) : ~NoValue(TextMeasure(i))}
MeasureOf(i) == tenths(Number(String(TextMeasure(i))))
\* row i stands before row j in the order asked for, the earlier row first on a tie
Ahead(i, j) ==
    \/ IF TopWanted.order = "asc" THEN MeasureOf(i) < MeasureOf(j) ELSE MeasureOf(i) > MeasureOf(j)
    \/ MeasureOf(i) = MeasureOf(j) /\ i < j
Place(i) == Cardinality({j \in WithMeasure : Ahead(j, i)}) + 1
TopRows == applied.out.resp.tables[1].rows

\* C17 as stated: TopN returns exactly the first k of the rows that have a finite
\* numeric measure value, sorted by that value descending (ascending when
\* order=asc), rows of equal value in their dataset order, and no row with a
\* missing or non-numeric measure cell appears in the result.
C17_TopOfMeasured ==
    TopCall =>
        /\ applied.out.intent = "TopN"
        /\ Len(applied.out.resp.tables) = 1
        /\ Len(TopRows) = (IF Cardinality(WithMeasure) < TopWanted.k
                           THEN Cardinality(WithMeasure) ELSE TopWanted.k)
        /\ \A i \in WithMeasure :
              Place(i) <= TopWanted.k =>
                  /\ Place(i) <= Len(TopRows)
                  /\ TopRows[Place(i)][1] = get(RuleLoaded[applied.file].rows[i], "NOMBRE")
                  /\ isFinite(TopRows[Place(i)][4])
                  /\ tenths(TopRows[Place(i)][4]) = MeasureOf(i)



\* the summary of a Top/Bottom answer for k and an order
TopSummary(k, order) ==
    "Top " \o String(Num(k)) \o " por AUTOESTIMA"
    \o (IF order = "asc" THEN " (más baja)" ELSE " (más alta)") \o "."

\* C18 as stated: a question containing 'top N' is classified TopN with k = N
\* clamped to 1..50 (5 when N is absent), and the order is ascending whenever the
\* text contains a lowest/worst qualifier and descending otherwise.
C18_TopClassified ==
    \A t \in TopClassified :
        (applied.fn = "answerRows" /\ applied.q = t.q) =>
            /\ applied.out.intent = "TopN"
            /\ applied.out.resp.general = TopSummary(t.k, t.order)



\* the Threshold call of the state, what it asked for, the rows of the file whose
\* measure satisfies it, and the rows of the table of the answer
ThresholdCall == applied.fn = "answerRows" /\ applied.q \in {t.q : t \in ThresholdAsked}
ThresholdWanted == CHOOSE t \in ThresholdAsked : t.q = applied.q
Satisfies(m, t) ==
    CASE t.op = ">"  -> m >  10 * t.val
      [] t.op = "<"  -> m <  10 * t.val
      [] t.op = ">=" -> m >= 10 * t.val
      [] OTHER       -> m <= 10 * t.val
Passing == {i \in WithMeasure : Satisfies(MeasureOf(i), ThresholdWanted)}
Listed == applied.out.resp.tables[1].rows

\* C19 as stated: Threshold returns exactly the rows whose finite measure value
\* satisfies the comparator against the literal value, sorted descending by measure
\* value and truncated to at most 200 rows; no row failing the comparator is ever
\* returned.
C19_ThresholdRows ==
    ThresholdCall =>
        /\ applied.out.intent = "Threshold"
        /\ Len(applied.out.resp.tables) = 1
        /\ Len(Listed) = (IF Cardinality(Passing) < ThresholdRows
                          THEN Cardinality(Passing) ELSE ThresholdRows)
        /\ \A r \in 1..Len(Listed) :
              /\ isFinite(Listed[r][4])
              /\ Satisfies(tenths(Listed[r][4]), ThresholdWanted)
              /\ \E i \in Passing :
                    /\ Listed[r][1] = get(RuleLoaded[applied.file].rows[i], "NOMBRE")
                    /\ tenths(Listed[r][4]) = MeasureOf(i)
        /\ \A r \in 1..(Len(Listed) - 1) : tenths(Listed[r][4]) >= tenths(Listed[r + 1][4])



\* the summary of a Threshold answer for a comparator and a number
ThresholdSummary(op, val) ==
    "Listado por umbral (AUTOESTIMA " \o op \o " " \o String(Num(val)) \o ")."

\* C20 as stated: every question that matches no higher-priority rule and contains
\* a comparator token (>, <, >=, <= or a verbal equivalent) followed by a number is
\* classified as Threshold with that comparator and that number; e.g. 'quienes
\* tienen AUTOESTIMA > 70' yields Threshold(AUTOESTIMA, >, 70).
C20_ThresholdClassified ==
    \A t \in ComparatorAsked :
        (applied.fn = "answerRows" /\ applied.q = t.q) =>
            /\ applied.out.intent = "Threshold"
            /\ applied.out.resp.general = ThresholdSummary(t.op, t.val)



\* the Average call of the state, and the rows of the file it averages: those of
\* the course asked for, if one is, whose AUTOESTIMA cell is a numeral
AverageCall == applied.fn = "answerRows" /\ applied.q \in AverageTexts
Averaged ==
    IF applied.q = "promedio de AUTOESTIMA" THEN WithMeasure
    ELSE {i \in WithMeasure : norm(String(get(TextRows[i], "CURSO"))) = "noveno"}
RECURSIVE MeasureSum(_)
MeasureSum(S) ==
    IF S = {} THEN 0 ELSE LET i == CHOOSE j \in S : TRUE IN MeasureOf(i) + MeasureSum(S \ {i})

\* C21 as stated: the no-group Average is the mean over exactly the filtered rows
\* whose measure cell is numeric, empty or non-numeric cells adding neither to the
\* sum nor to the count; when the filtered set has no numeric value the result is
\* the 'no value' placeholder, never NaN, 0 or an error.
C21_MeanOfNumeric ==
    AverageCall =>
        /\ applied.out.intent = "Average" /\ applied.out.resp.ok
        /\ Len(applied.out.resp.tables) = 1
        /\ Len(applied.out.resp.tables[1].rows) = 1
        /\ applied.out.resp.tables[1].rows[1][2] =
              (IF Averaged = {} THEN Str(Dash)
               ELSE roundedMean(MeasureSum(Averaged), Cardinality(Averaged)))



----------------------------------------------------------------------------
(* bucket on its own: the values it is called with are those toNum        *)
(* returns, numbers (here with one decimal) and NaN.                       *)
MaxBucketed == 100   \* values 0 .. MaxBucketed
Bucketed == {Dec(n, d) : n \in 0..MaxBucketed, d \in {0, 5}} \cup {NaN}

BucketInit ==
    /\ applied \in {[fn |-> "none", v |-> v] : v \in Bucketed}
    /\ disk = <<>> /\ sent = NoResponse
    /\ SrvIdle /\ AnsIdle /\ PctIdle /\ ShapeIdle

\* server.js:240-246  bucket(v)
ApplyBucket ==
    /\ applied.fn = "none"
    /\ applied' = [fn |-> "bucket", v |-> applied.v, out |-> bucket(applied.v)]
    /\ UNCHANGED ruleFrame

BucketNext == ApplyBucket

BucketSpec == BucketInit /\ [][BucketNext]_vars

\* C22 as stated: bucket maps every numeric value to exactly one band with exact
\* boundaries: values <= 40 give BAJO, 41..70 give PROMEDIO, values >= 71 give
\* ALTO, so 40 is BAJO, 41 and 70 are PROMEDIO, 71 is ALTO; a non-finite input
\* gives the 'no data' marker.
C22_Bands ==
    applied.fn = "bucket" =>
        IF isFinite(applied.v)
        THEN /\ applied.out \in {"BAJO", "PROMEDIO", "ALTO"}
             /\ tenths(applied.v) <= 400 => applied.out = "BAJO"
             /\ (410 <= tenths(applied.v) /\ tenths(applied.v) <= 700) => applied.out = "PROMEDIO"
             /\ tenths(applied.v) >= 710 => applied.out = "ALTO"
        ELSE applied.out = Dash



\* the call of the state that lists a cohort, the Filter it asked for, and the
\* loaded rows that match it: every pair equal after folding case and marks
FilterCall == applied.fn = "answerRows" /\ applied.q \in {t.q : t \in FilterAsked}
FilterWanted == (CHOOSE t \in FilterAsked : t.q = applied.q).f
Folded(s) == trim(foldFrom(s, 1))
InCohort(r) ==
    \A i \in 1..Len(FilterWanted) :
        Folded(String(get(r, FilterWanted[i].k))) = Folded(FilterWanted[i].v)
CohortNames ==
    {get(RuleLoaded[applied.file].rows[i], "NOMBRE") :
        i \in {j \in 1..Len(RuleLoaded[applied.file].rows) : InCohort(RuleLoaded[applied.file].rows[j])}}
ListedNames == {Listed[r][1] : r \in 1..Len(Listed)}

\* C23 as stated: a Filter is applied before aggregation and by exact match: a row
\* belongs to the cohort if and only if, for every (column, value) pair of the
\* Filter, the row's value in that column equals the filter value after case and
\* diacritic folding; with an empty Filter the cohort is all rows.
C23_CohortIsExactMatch ==
    FilterCall =>
        /\ applied.out.intent = "TopN"
        /\ Len(applied.out.resp.tables) = 1
        /\ ListedNames = CohortNames



\* the Average call of the state whose summary names the measure picked, the
\* columns of its file, and among them: those the question names, the well-known
\* measures, and those whose cell in the first row of the text is a numeral
MeasureCall ==
    applied.fn = "answerRows" /\ applied.q \in MeasureTexts \cup {"promedio de AUTOESTIMA"}
FileColumns == RuleLoaded[applied.file].columns
NamedColumns == {c \in Range(FileColumns) : includes(norm(applied.q), norm(c))}
WellKnownColumns ==
    {c \in Range(FileColumns) : \E i \in 1..Len(MeasureMap) : norm(c) = norm(MeasureMap[i].col)}
NumericColumns == {i \in 1..Len(FileColumns) : ~NoValue(get(TextRows[1], FileColumns[i]))}
PickedIs(c) == applied.out.resp.general = "Promedio de " \o c \o "."

\* C24 as stated: if some column's normalized name occurs in the question,
\* pickMeasure returns such a column; if none occurs, it returns a well-known
\* measure column of the fixed list when the dataset has one; otherwise it returns
\* the first column whose values are numeric, and never a text column (e.g. the
\* name column) while a numeric column exists.
C24_MeasurePicked ==
    MeasureCall =>
        /\ applied.out.intent = "Average"
        /\ IF NamedColumns # {} THEN \E c \in NamedColumns : PickedIs(c)
           ELSE IF WellKnownColumns # {} THEN \E c \in WellKnownColumns : PickedIs(c)
           ELSE NumericColumns # {} =>
                    PickedIs(FileColumns[CHOOSE i \in NumericColumns : \A j \in NumericColumns : i <= j])



----------------------------------------------------------------------------
(* The loaders on their own.  src/server.js:860-end is a third server,     *)
(* which preloads decimo.csv with a loadCSV of its own.                    *)

\* server.js:919-921  columns.forEach((h, i) => (o[h] = vals[i]))
RECURSIVE makeRowPreload(_, _, _)
makeRowPreload(headers, vals, i) ==
    IF i = 0 THEN <<>>
    ELSE put(makeRowPreload(headers, vals, i - 1), headers[i],
             IF i <= Len(vals) THEN Str(vals[i]) ELSE Undefined)
\* server.js:917-922  the rows under the columns
rowsPreload(columns, lines, delimiter) ==
    [columns |-> columns,
     rows |-> [i \in 1..(Len(lines) - 1) |->
                  makeRowPreload(columns, unquoteAll(split(lines[i + 1], delimiter)), Len(columns))]]
\* server.js:913-916
linesPreload(lines, delimiter) == rowsPreload(trimAll(split(lines[1], delimiter)), lines, delimiter)
\* server.js:909  loadCSV of the third server, of a file that can be read
loadCSVPreload(file) ==
    IF SelectSeq(file.lines, LAMBDA l : trim(l) # "") = <<>> THEN [columns |-> <<>>, rows |-> <<>>]
    ELSE linesPreload(SelectSeq(file.lines, LAMBDA l : trim(l) # ""),
                      IF includes(file.lines[CHOOSE i \in 1..Len(file.lines) :
                                                 /\ trim(file.lines[i]) # ""
                                                 /\ \A j \in 1..(i - 1) : trim(file.lines[j]) = ""], ";")
                      THEN ";" ELSE ",")

\* files of a header and one or two data lines, with as many fields as the
\* header has columns, with fewer, and with none; and the files of three rows
\* and more
LoadHeaders == {"NOMBRE;AUTOESTIMA", "NOMBRE,PARALELO,AUTOESTIMA"}
LoadLines == {"Ana Ruiz", "Ana Ruiz;80", "Ana Ruiz;", "Beto Paz,B", "Beto Paz,B,30", "Beto Paz,,",
              "\"Caro Luna\"", " "}
LoadFiles ==
    {[exists |-> TRUE, lines |-> <<h, a>>] : h \in LoadHeaders, a \in LoadLines}
    \cup {[exists |-> TRUE, lines |-> <<h, a, b>>] : h \in LoadHeaders, a \in LoadLines, b \in LoadLines}
    \cup {ScenarioFile, ClassFile, GapFile, NamesFile}

LoadInit ==
    /\ applied \in {[fn |-> "none", file |-> f] : f \in LoadFiles}
    /\ disk = <<>> /\ sent = NoResponse
    /\ SrvIdle /\ AnsIdle /\ PctIdle /\ ShapeIdle

LoadedAs(fn, data) == [fn |-> fn, file |-> applied.file, data |-> data]
\* server.js:258-291  loadCSV of the server of /api/answer
ApplyLoadCSV ==
    /\ applied.fn = "none"
    /\ applied' = LoadedAs("loadCSV", loadCSV(applied.file))
    /\ UNCHANGED ruleFrame
\* part_001:59-74  loadCSV of the FAST server
ApplyLoadCSVFast ==
    /\ applied.fn = "none"
    /\ applied' = LoadedAs("loadCSVFast", loadCSVFast(applied.file))
    /\ UNCHANGED ruleFrame
\* server.js:909-924  loadCSV of the third server
ApplyLoadCSVPreload ==
    /\ applied.fn = "none"
    /\ applied' = LoadedAs("loadCSVPreload", loadCSVPreload(applied.file))
    /\ UNCHANGED ruleFrame

LoadNext == ApplyLoadCSV \/ ApplyLoadCSVFast \/ ApplyLoadCSVPreload

LoadSpec == LoadInit /\ [][LoadNext]_vars

\* C25 as stated: after every load, every Record has a defined value (possibly
\* the empty string) for every Column: a data line with fewer fields than the
\* header gets the empty string for each missing trailing field, never an
\* undefined or absent value.
C25_EveryColumnHasValue ==
    applied.fn # "none" =>
        \A i \in 1..Len(applied.data.rows) :
            \A j \in 1..Len(applied.data.columns) :
                /\ \E p \in 1..Len(applied.data.rows[i]) :
                      applied.data.rows[i][p].k = applied.data.columns[j]
                /\ get(applied.data.rows[i], applied.data.columns[j]).t # "undef"



\* the cells of the file of the state as they stand in the text, trimmed; of the
\* sampled cells of column c, those that are not empty and those that parse as a
\* number once the symbols are stripped
FileCells == loadCSVFast(applied.file).rows
HasDigit(s) == \E p \in 1..Len(s) : IsDigit(ch(s, p))
Parses(cell) == HasDigit(String(cell)) /\ isFinite(toNum(cell))
Sampled == 1..(IF Len(FileCells) < SampleRows THEN Len(FileCells) ELSE SampleRows)
NonEmpty(c) == {i \in Sampled : String(get(FileCells[i], c)) # ""}
Parsing(c) == {i \in NonEmpty(c) : Parses(get(FileCells[i], c))}
MostlyNumbers(c) == NonEmpty(c) # {} /\ 10 * Cardinality(Parsing(c)) >= 6 * Cardinality(NonEmpty(c))

\* C26 as stated: a column is coerced to numbers only if at least 60% of its
\* sampled non-empty values parse as numbers; otherwise it stays Text and every
\* cell keeps its trimmed original string.  In particular a name column whose
\* cells contain no digits has the same cell values after load as in the file,
\* for any number of rows.
C26_TextStaysText ==
    applied.fn = "loadCSV" =>
        \A j \in 1..Len(applied.data.columns) :
            ~MostlyNumbers(applied.data.columns[j]) =>
                \A i \in 1..Len(applied.data.rows) :
                    get(applied.data.rows[i], applied.data.columns[j])
                        = get(FileCells[i], applied.data.columns[j])



\* a response of /api/answer that the rules computed on the rows of the file the
\* request loaded
RuledOnRows ==
    /\ AnswerSent /\ sent.file.exists /\ Loaded[sent.file].rows # <<>>
    /\ sent.intent # "TextLookup"

\* C27: in every interleaving of concurrent /api/answer requests, each loading
\* its own dataset, the sample row pickMeasure reads from globalThis.__sampleRow
\* is the first row of the dataset the same request loaded: the answer of a
\* request is the one its rules give with that row for the sample, and no request
\* resolves its measure column from another request's data.
C27_OwnSampleRow ==
    RuledOnRows =>
        /\ sent.intent = Answers[sent.q, sent.file, Loaded[sent.file].rows[1]].intent
        /\ sent.resp = Answers[sent.q, sent.file, Loaded[sent.file].rows[1]].resp
\* C27 witness: a request that names no column was answered on the file whose
\* first row makes AUTOESTIMA the measure, after another request had left the
\* first row of another file in __sampleRow, and while a request is in flight
C27_Witness ==
    /\ RuledOnRows /\ sent.q = "promedio" /\ sent.file = DottedFile
    /\ sent.resp.general = "Promedio de AUTOESTIMA."
    /\ Answers["promedio", DottedFile, Loaded[ScenarioFile].rows[1]].resp.general = "Promedio de NOMBRE."
    /\ Len(ans) = 1 /\ disk[CsvName] = ScenarioFile



\* a step in which a reload fails: its loadCSV was awaited, decimo.csv cannot be
\* read, and the request ends
ReloadFails ==
    \E i \in 1..Len(reload) :
        /\ reload[i].pc = 0 /\ ~disk[CsvName].exists
        /\ reload' = remove(reload, i)

\* C28: a failed reload changes nothing: if preloadAll fails because the tabular
\* file cannot be read, DATA and the three TXT documents keep the values of the
\* last successful load and the reload request answers with an error; DATA and
\* TXT being what they were, later question requests are served from that
\* snapshot.
C28_FailedReloadKeepsData ==
    [][ReloadFails =>
          /\ DATA' = DATA /\ TXT' = TXT
          /\ stamp'.DATA = stamp.DATA
          /\ sent'.kind = "reload" /\ sent'.resp.status = 500]_vars
\* C28 witness: the reload has answered 500, DATA still holds the rows of the
\* start, and a question request awaits its wording with the table computed on
\* those rows
C28_Witness ==
    /\ sent.kind = "reload" /\ sent.resp.status = 500
    /\ ~disk[CsvName].exists
    /\ stamp.DATA = 0 /\ DATA.rows # <<>>
    /\ Len(req) = 1 /\ ~req[1].late /\ req[1].intent = "TopN" /\ req[1].seen = <<0>>



\* the responses a request in flight can get when its call settles in time
Settled(r) ==
    {Asked(r, "reply", IF r.block THEN shapeBlock(text, r.local) ELSE shapeDirect(text, r.local)) :
        text \in FastOutputs}
    \cup {Asked(r, "failure", Response(500, JError(FailureText)))}

\* C29: each question request sends exactly one response, in every ordering of
\* the timer and the text-generation call: withTimeout settles exactly once, with
\* the call's outcome if it settles before the deadline, otherwise with a 'timeout'
\* rejection, and a call that settles after the timeout has fired neither sends a
\* second response nor changes the one already sent.
C29_OneResponse ==
    [][/\ req' # req =>
            \/ /\ Len(req') = Len(req) + 1
               /\ req' = Append(req, req'[Len(req')])
               /\ ~req'[Len(req')].late
               /\ sent' = sent
            \/ \E i \in 1..Len(req) :
                    \/ /\ ~req[i].late
                       /\ req' = remove(req, i)
                       /\ sent' \in Settled(req[i])
                    \/ /\ ~req[i].late
                       /\ req' = [req EXCEPT ![i].late = TRUE]
                       /\ sent' = Asked(req[i], "timeout", Response(500, JError("timeout")))
                    \/ /\ req[i].late
                       /\ req' = remove(req, i)
                       /\ sent' = sent
       /\ (req' = req /\ sent' # sent /\ sent'.kind = "ask") => sent'.call = "none"]_vars
\* C29 witness: the timer fired first and the request answered 'timeout'; its call
\* has settled since, and that response is still the last one sent
C29_Witness ==
    /\ req = <<>>
    /\ sent.kind = "ask" /\ sent.call = "timeout"
    /\ sent.resp = Response(500, JError("timeout"))



\* the call of the state with the advertised phrasing, and the PARALELO values
\* present among the loaded rows of curso DECIMO
GroupCall == applied.fn = "answerRows" /\ applied.q = AdvertisedQuestion
OfCourse ==
    {i \in 1..Len(RuleLoaded[applied.file].rows) :
        Folded(String(get(RuleLoaded[applied.file].rows[i], "CURSO"))) = "decimo"}
CourseGroups == {get(RuleLoaded[applied.file].rows[i], "PARALELO") : i \in OfCourse}
GroupTable == applied.out.resp.tables[1].rows

\* C30 as stated: for the phrasing the server itself advertises, 'promedio de M
\* por PARALELO (en curso C)', the group qualifier 'por paralelo' adds no filter on
\* PARALELO: the Filter is exactly {CURSO = C}, and the result holds one row per
\* PARALELO value present among the rows of curso C.
C30_GroupAddsNoFilter ==
    GroupCall =>
        /\ applied.out.intent = "Average"
        /\ Len(applied.out.resp.tables) = 1
        /\ Len(GroupTable) = Cardinality(CourseGroups)
        /\ {GroupTable[r][1] : r \in 1..Len(GroupTable)} = CourseGroups

====
